---- MODULE Spec2Model ----
(***************************************************************************)
(* Verification model of the 3D-asset import pipeline of threejs-demo:     *)
(* the glTF parser with its memoized asynchronous dependency cache and     *)
(* plugin dispatch (GLTFParser, GLTFLoader), and the FBX loader with its   *)
(* module-level parse state (FBXLoader, FBXTreeParser, BinaryParser).      *)
(***************************************************************************)
EXTENDS Integers, Sequences, FiniteSets, TLC

(***************************************************************************)
(* Bounds of the model.                                                    *)
(***************************************************************************)
MaxPlugins == 2        \* plugins registered on one loader
MaxExternalCalls == 1  \* getDependency calls made by user code per parse
MaxTextures == 2       \* Texture nodes of one FBX document
MaxConnections == 2    \* triples in an FBX Connections block
MaxBytes == 24         \* byte length of a buffer under a BinaryReader
MaxLength == 3         \* size argument of a BinaryReader call
MaxCalls == 3          \* BinaryReader calls in a row
MaxRecords == 3        \* node records of a binary FBX buffer
MaxLines == 6          \* lines of an ASCII FBX text
MaxDepth == 2          \* tabs in front of a line
MaxEntries == 5        \* entries of a polygon index array
MaxVertex == 1         \* the largest vertex index
MaxWeights == 5        \* deformers that weigh on one vertex
MaxMaterials == 3      \* materials connected to a mesh
MaxGroups == 3         \* groups of a geometry
MaxTime == 3           \* the latest key time of an animation curve
MaxKeys == 3           \* keys of a rotation curve
MaxCount == 3          \* count of an accessor
MaxNames == 4          \* calls of createUniqueName
MaxNodes == 3          \* node definitions of a document

(***************************************************************************)
(* The glTF document under parse (json).  One scene with two sibling root  *)
(* nodes; node 0 has child 2 and a skin whose joint is node 2; nodes 0 and *)
(* 2 share mesh 0; node 1 carries mesh 1 and camera 0; camera 1 is         *)
(* referenced by no node.  Mesh 0 uses material 0, whose base-colour and   *)
(* emissive maps both name texture 0 (image 0, fetched by uri); mesh 1     *)
(* uses the default material.  Accessor i reads bufferView i of buffer i,  *)
(* both buffers being external files.                                      *)
(***************************************************************************)
K(type, index) == <<type, index>>

sceneNodes(i) == <<0, 1>>
nodeChildren(i) == IF i = 0 THEN <<2>> ELSE <<>>
nodeMesh(i) == IF i = 1 THEN <<1>> ELSE <<0>>
nodeCamera(i) == IF i = 1 THEN <<0>> ELSE <<>>
nodeSkin(i) == IF i = 0 THEN <<0>> ELSE <<>>
skinJoints(i) == <<2>>
meshMaterials(i) == IF i = 0 THEN <<0>> ELSE <<>>
meshAccessors(i) == <<i>>
materialTextures(i) == <<0, 0>>
textureSource(i) == 0
accessorBufferView(i) == i
bufferViewBuffer(i) == i

DepTypes ==
  {"scene", "node", "mesh", "accessor", "bufferView", "buffer", "material",
   "texture", "skin", "camera"}

Keys ==
  {K("scene", 0)} \cup {K("node", i) : i \in 0..2}
    \cup {K("nodeShallow", i) : i \in 0..2}
    \cup {K("mesh", i) : i \in 0..1} \cup {K("geometry", i) : i \in 0..1}
    \cup {K("accessor", i) : i \in 0..1} \cup {K("bufferView", i) : i \in 0..1}
    \cup {K("buffer", i) : i \in 0..1}
    \cup {K("material", 0), K("texture", 0), K("image", 0), K("skin", 0)}
    \cup {K("camera", i) : i \in 0..1}

DepKeys == {k \in Keys : k[1] \in DepTypes}

(***************************************************************************)
(* Plugins.  A plugin implements one load hook; for the element index it   *)
(* handles the hook returns a promise that later fulfils ("promise"), a    *)
(* promise that later rejects ("reject"), returns null ("null") or throws  *)
(* ("throw"); for any other index it returns null, and for the hooks it    *)
(* does not define the callback yields undefined.                          *)
(***************************************************************************)
HookTypes == {"node", "mesh", "material", "texture", "bufferView"}
HookKinds == {"null", "promise", "reject", "throw"}
PluginCatalogue ==
  {[name |-> <<h, c>>, hook |-> h, kind |-> c] : h \in {"mesh", "texture"}, c \in HookKinds}
    \cup {[name |-> <<"node", "null">>, hook |-> "node", kind |-> "null"],
          [name |-> <<"material", "promise">>, hook |-> "material", kind |-> "promise"],
          [name |-> <<"bufferView", "reject">>, hook |-> "bufferView", kind |-> "reject"]}

VARIABLES
  pluginCallbacks, \* GLTFLoader.pluginCallbacks, in registration order
  plugins,      \* GLTFParser.plugins, in Object.values order
  cameraDefs,   \* per camera: "ok" or "missing" (type set, parameters absent)
  status,       \* per key: the cached dependency ("absent", "undef", promise state)
  loads,        \* per key: how often the element's loader was invoked
  calls,        \* per key: how often it was requested
  returned,     \* per key: the results handed to requesters (0: undefined, n: n-th promise)
  log,          \* per key: the extensions the last dispatch called (0: the parser itself)
  winner,       \* per key: who produced the cached promise (-1: nobody, 0: the parser, plugin position)
  value,        \* per key: what the promise fulfilled with
  phase,        \* GLTFParser.parse: "idle", "beforeRoot", "requested", "done"
  rootsThrew,   \* an exception escaped the request of scenes/animations/cameras
  onLoadCalls, onErrorCalls,
  extCalls,
  assetVersion, \* json.asset.version of the document handed to GLTFLoader.parse
  gFbxTree,     \* global.fbxTree: the document it was tokenized from, and the writer
  gConnections, \* global.connections: the map, and the parse that wrote it
  gWireframe,   \* global.wireframe: the flag, and the loader that wrote it
  gSceneGraph,  \* global.sceneGraph: the parse that built it (0: the initial Group)
  fbxPc,        \* per FBX parse: "none", "ready", "suspended", "done", "failed"
  fbxDoc,       \* per FBX parse: the buffer handed to FBXLoader.parse
  fbxOption,    \* per FBX parse: the wireframe option of its loader
  texturesLeft, \* per FBX parse: Texture nodes parseTextures has still to await
  readFrom,     \* per FBX parse: the writers of the global state it has read
  fbxResult,    \* per FBX parse: what the scene graphs it returned were built from
  active,       \* the FBX parses of this run
  pool,         \* the FBX documents of this run
  rSize,        \* BinaryReader: dv.buffer.byteLength
  rOffset,      \* BinaryReader: offset
  rLast,        \* BinaryReader: the last call, whether it threw, the bytes it returned
  rCalls,       \* BinaryReader: calls made so far
  bContent,     \* BinaryParser: the bytes of the buffer after magic and version
  bWide,        \* BinaryParser: version >= 7500 (64-bit header fields)
  bPc,          \* BinaryParser: "idle", "top", "call", "loop", "done", "threw"
  bStack,       \* BinaryParser: the parseNode calls in progress (endOffset, named)
  bCalls,       \* BinaryParser: parseNode calls made
  bNulls,       \* BinaryParser: parseNode calls that returned null
  bAdded,       \* BinaryParser: nodes added to allNodes or attached to a parent
  nodeStack,    \* TextParser.nodeStack: per node its property a
  currentIndent, \* TextParser.currentIndent
  tPc,          \* TextParser.parse: "idle", "lines", "threw"
  tLines,       \* TextParser.parse: lines handed to the forEach callback so far
  tArray,       \* the lines of the array property being read, opening line first
  tOpen,        \* whether the last of them ended with a comma
  tOwner,       \* the depth of the node the opening line was read in
  vertexIndices, \* geoInfo.vertexIndices, the flat polygon index array
  weightTable,  \* geoInfo.weightTable: per vertex its (weight, id) entries
  layer,        \* the layer handed to getData: geoInfo.normal
  shape,        \* what the positions of a face's vertices form
  polygonVertexIndex, \* genBuffers: entries the forEach has handled
  polygonIndex, \* genBuffers: let polygonIndex
  faceLength,   \* genBuffers: let faceLength
  facePositionIndexes, \* genBuffers: the vertices of the face being read
  faceWeights,  \* genBuffers: per vertex of that face its four slots
  faces,        \* the calls of genFace so far
  passed,       \* the calls of getData so far, with what they returned
  dataArray,    \* parse/utils.ts: const dataArray
  connected,    \* createMesh: the materials of the mesh's children, in order
  groups,       \* createMesh: geometry.groups, each its materialIndex
  hasDefault,   \* whether materialMap holds defaultMaterialIndex
  meshPc,       \* createMesh: "idle", "ready", "done", "threw"
  mesh,         \* the mesh made: its material list and its groups
  curves,       \* generateVectorTrack: the x, y and z curves of a T or S node
  initialValue, \* generateVectorTrack: the model's initial position or scale
  vectorPc,     \* generateVectorTrack: "idle", "ready", "done"
  vectorTrack,  \* the VectorKeyframeTrack made: its times and its values
  keyframes,    \* interpolateRotations: per key of curvex its x, y, z in degrees
  interpolated, \* interpolateRotations: the samples pushed to times and values
  interpolatePc, \* interpolateRotations: "idle", "ready", "done"
  eulers,       \* generateRotationTrack: values, one Euler triple per time
  preRotation,  \* generateRotationTrack: preRotation
  postRotation, \* generateRotationTrack: postRotation
  quaternionValues, \* generateRotationTrack: one quaternion per time
  trackPc,      \* generateRotationTrack: "idle", "ready", "done"
  accessorDef,  \* loadAccessor: json.accessors[accessorIndex] and its bufferView
  bufferAttribute, \* loadAccessor: the attribute the promise resolves with
  accessorPc,   \* loadAccessor: "idle", "ready", "done"
  loadInput,    \* FBXLoader.load: what the fetch and the parse will meet
  loadCalled,   \* FBXLoader.load: calls of onLoad and onError, unhandled rejections
  loadPc,       \* FBXLoader.load: "idle", "ready", "fetching", "awaiting", "settled"
  nodeNamesUsed, \* GLTFParser.nodeNamesUsed: sanitized name -> counter
  uniqueNames,  \* what createUniqueName returned, call by call
  nodeDefs,     \* per node definition: the kinds of object it refers to (index 0 of each)
  refCache,     \* per kind: meshCache, cameraCache, the lights extension's cache
  objects,      \* per kind: the objects created so far (0: the loaded one, n: the n-th clone)
  nodeRefs,     \* per node and kind: what _getNodeRef returned to the node
  refPc,        \* "idle", "ready", "marked"
  gltfInput,    \* GLTFLoader.load: what the fetch, the parse and the callbacks will do
  manager,      \* GLTFLoader.load: calls of itemStart/itemEnd/itemError, onLoad and onError
  gltfPc        \* GLTFLoader.load: "idle", "ready", "fetching", "parsing", "settled"

gltfVars ==
  <<pluginCallbacks, plugins, cameraDefs, status, loads, calls, returned, log, winner, value, phase,
    rootsThrew, onLoadCalls, onErrorCalls, extCalls, assetVersion>>

fbxVars ==
  <<gFbxTree, gConnections, gWireframe, gSceneGraph, fbxPc, fbxDoc, fbxOption,
    texturesLeft, readFrom, fbxResult, active, pool>>

readerVars == <<rSize, rOffset, rLast, rCalls>>

binaryVars == <<bContent, bWide, bPc, bStack, bCalls, bNulls, bAdded>>

textVars == <<nodeStack, currentIndent, tPc, tLines, tArray, tOpen, tOwner>>

geoVars == <<vertexIndices, weightTable, layer, shape, polygonVertexIndex,
             polygonIndex, faceLength, facePositionIndexes, faceWeights,
             faces, passed, dataArray>>

meshVars == <<connected, groups, hasDefault, meshPc, mesh>>

vectorVars == <<curves, initialValue, vectorPc, vectorTrack>>

earlyVars == <<gltfVars, fbxVars, readerVars, binaryVars, textVars, geoVars, meshVars>>

rotationVars == <<keyframes, interpolated, interpolatePc>>

trackVars == <<eulers, preRotation, postRotation, quaternionValues, trackPc>>

accessorVars == <<accessorDef, bufferAttribute, accessorPc>>

loadVars == <<loadInput, loadCalled, loadPc>>

nameVars == <<nodeNamesUsed, uniqueNames>>

refVars == <<nodeDefs, refCache, objects, nodeRefs, refPc>>

managerVars == <<gltfInput, manager, gltfPc>>

lateVars ==
  <<vectorVars, rotationVars, trackVars, accessorVars, loadVars, nameVars, refVars,
    managerVars>>

parseVars == <<readerVars, binaryVars, textVars, geoVars, meshVars, lateVars>>

vars == <<gltfVars, fbxVars, parseVars>>

(***************************************************************************)
(* getDependency and the loaders it reaches, as one synchronous walk.  The *)
(* walk threads a record st through the calls: the caches and counters     *)
(* above plus thrown, set when an exception is unwinding the call stack.   *)
(***************************************************************************)
RECURSIVE getDependency(_, _), getAll(_, _), invoke(_, _, _)

Seq2Keys(type, ixs) == [j \in 1..Len(ixs) |-> K(type, ixs[j])]

\* The result of the hook of plugin p for key k.
HookResult(p, k) ==
  IF p.hook # k[1] THEN "undef"
  ELSE IF k[2] # 0 THEN "null"
  ELSE p.kind

\* The promises the built-in loader of key k joins, in the order in which
\* it requests them: through getDependency for the dependency types,
\* through nodeCache, primitiveCache and sourceCache for the others.
Deps(k) ==
  CASE k[1] = "scene" -> Seq2Keys("node", sceneNodes(k[2]))
    [] k[1] = "node" ->
         <<K("nodeShallow", k[2])>> \o Seq2Keys("node", nodeChildren(k[2]))
           \o Seq2Keys("skin", nodeSkin(k[2]))
    [] k[1] = "nodeShallow" ->
         Seq2Keys("mesh", nodeMesh(k[2])) \o Seq2Keys("camera", nodeCamera(k[2]))
    [] k[1] = "mesh" ->
         Seq2Keys("material", meshMaterials(k[2])) \o <<K("geometry", k[2])>>
    [] k[1] = "geometry" -> Seq2Keys("accessor", meshAccessors(k[2]))
    [] k[1] = "accessor" -> <<K("bufferView", accessorBufferView(k[2]))>>
    [] k[1] = "bufferView" -> <<K("buffer", bufferViewBuffer(k[2]))>>
    [] k[1] = "material" -> Seq2Keys("texture", materialTextures(k[2]))
    [] k[1] = "texture" -> <<K("image", textureSource(k[2]))>>
    [] k[1] = "skin" -> Seq2Keys("nodeShallow", skinJoints(k[2]))
    [] OTHER -> <<>>

RangeOf(s) == {s[j] : j \in 1..Len(s)}

\* A new pending promise for key k, produced by extension w.
Pend(st, k, w) ==
  [st EXCEPT !.status[k] = "pending", !.winner[k] = w]

getAll(st, ks) ==
  IF ks = <<>> \/ st.thrown THEN st
  ELSE getAll(getDependency(st, Head(ks)), Tail(ks))

\* GLTFParser.loadCamera: undefined when the parameters are missing.
loadCamera(st, k) ==
  IF cameraDefs[k[2]] = "missing"
  THEN [st EXCEPT !.status[k] = "undef", !.winner[k] = 0]
  ELSE [st EXCEPT !.status[k] = "fulfilled", !.winner[k] = 0, !.value[k] = "object"]

\* _loadNodeShallow calls .then on what getDependency('camera') returned.
NodeCameraThen(st, k) ==
  IF k[1] = "nodeShallow"
     /\ \E j \in 1..Len(nodeCamera(k[2])) :
          st.status[K("camera", nodeCamera(k[2])[j])] = "undef"
  THEN [st EXCEPT !.thrown = TRUE]
  ELSE st

\* The parser's own loader for key k (loadScene, loadNode, _loadNodeShallow,
\* loadMesh, loadGeometries, loadAccessor, loadBufferView, loadBuffer,
\* loadMaterial, loadTexture/loadTextureImage, loadImageSource, loadSkin,
\* loadCamera): it requests its dependencies and returns their join.
Builtin(st, k) ==
  LET st0 == [st EXCEPT !.loads[k] = @ + 1, !.log[k] = Append(@, 0)]
  IN IF k[1] = "camera" THEN loadCamera(st0, k)
     ELSE LET st1 == NodeCameraThen(getAll(st0, Deps(k)), k)
          IN IF st1.thrown THEN st1 ELSE Pend(st1, k, 0)

\* A dispatch that lets the last plugin with a result win.
InvokeOneLast(st, k, i) ==
  IF i > Len(plugins) THEN Builtin(st, k)
  ELSE LET r == HookResult(plugins[i], k)
           st0 == [st EXCEPT !.log[k] = Append(@, i)]
       IN CASE r = "undef" -> invoke(st, k, i + 1)
            [] r = "null" -> invoke(st0, k, i + 1)
            [] r = "throw" -> [st0 EXCEPT !.thrown = TRUE]
            [] OTHER -> invoke(Pend([st0 EXCEPT !.loads[k] = @ + 1], k, i), k, i + 1)

\* A dispatch that takes a throwing hook for one that declined.
InvokeOneContained(st, k, i) ==
  IF i > Len(plugins) THEN Builtin(st, k)
  ELSE LET r == HookResult(plugins[i], k)
           st0 == [st EXCEPT !.log[k] = Append(@, i)]
       IN CASE r = "undef" -> invoke(st, k, i + 1)
            [] r \in {"null", "throw"} -> invoke(st0, k, i + 1)
            [] OTHER -> Pend([st0 EXCEPT !.loads[k] = @ + 1], k, i)

\* GLTFParser._invokeOne from position i of Object.values(this.plugins) on,
\* the parser itself pushed last.
InvokeOneFrom(st, k, i) ==
  IF i > Len(plugins) THEN Builtin(st, k)
  ELSE LET r == HookResult(plugins[i], k)
           st0 == [st EXCEPT !.log[k] = Append(@, i)]
       IN CASE r = "undef" -> invoke(st, k, i + 1)
            [] r = "null" -> invoke(st0, k, i + 1)
            [] r = "throw" -> [st0 EXCEPT !.thrown = TRUE]
            [] OTHER -> Pend([st0 EXCEPT !.loads[k] = @ + 1], k, i)

invoke(st, k, i) == InvokeOneFrom(st, k, i)

\* The load call of getDependency's switch: the intercepted types go
\* through _invokeOne, the others straight to the parser's loader.
LoadCall(st, k) ==
  LET st0 == [st EXCEPT !.log[k] = <<>>]
  IN IF k[1] \in HookTypes THEN invoke(st0, k, 1) ELSE Builtin(st0, k)

\* What a requester is handed: 0 for undefined, else the ordinal of the
\* promise among those made for the key.
Handed(st, k) == IF st.status[k] \in {"absent", "undef"} THEN 0 ELSE st.loads[k]

\* getDependency, and the cache lookups of _loadNodeShallow (nodeCache),
\* loadGeometries (primitiveCache) and loadImageSource (sourceCache).
GetDependencyBody(st, k) ==
  LET st0 == [st EXCEPT !.calls[k] = @ + 1]
      st1 == IF st0.status[k] \in {"absent", "undef"} THEN LoadCall(st0, k) ELSE st0
  IN IF st1.thrown THEN st1
     ELSE [st1 EXCEPT !.returned[k] = @ \cup {Handed(st1, k)}]

getDependency(st, k) ==
  IF st.thrown THEN st ELSE GetDependencyBody(st, k)

\* GLTFParser.getDependencies for scenes, animations and cameras.
RootKeys == <<K("scene", 0), K("camera", 0), K("camera", 1)>>

Walk == [status |-> status, loads |-> loads, calls |-> calls, returned |-> returned,
         log |-> log, winner |-> winner, value |-> value, thrown |-> FALSE]

Commit(st) ==
  /\ status' = st.status
  /\ loads' = st.loads
  /\ calls' = st.calls
  /\ returned' = st.returned
  /\ log' = st.log
  /\ winner' = st.winner
  /\ value' = st.value

(***************************************************************************)
(* GLTFParser.parse and the promise reactions.                             *)
(***************************************************************************)
PluginLists ==
  {<<>>} \cup {<<p>> : p \in PluginCatalogue}
    \cup {s \in [1..MaxPlugins -> PluginCatalogue] :
            \A i, j \in 1..MaxPlugins : i # j => s[i] # s[j]}

InitCaches ==
  /\ status = [k \in Keys |-> "absent"]
  /\ loads = [k \in Keys |-> 0]
  /\ calls = [k \in Keys |-> 0]
  /\ returned = [k \in Keys |-> {}]
  /\ log = [k \in Keys |-> <<>>]
  /\ winner = [k \in Keys |-> -1]
  /\ value = [k \in Keys |-> "none"]
  /\ phase = "idle"
  /\ plugins = <<>>
  /\ assetVersion = <<>>
  /\ rootsThrew = FALSE
  /\ onLoadCalls = 0
  /\ onErrorCalls = 0
  /\ extCalls = 0

\* json.asset.version is a string; asset.version[0] < 2 compares its first
\* character, converted to a number, with 2.
Digits == <<"0", "1", "2", "3", "4", "5", "6", "7", "8", "9">>
IsDigit(c) == \E d \in 1..10 : Digits[d] = c
ToNumber(c) == (CHOOSE d \in 1..10 : Digits[d] = c) - 1
MinAssetVersion == 2
UnsupportedAsset(version) ==
  IsDigit(version[1]) /\ ToNumber(version[1]) < MinAssetVersion

\* plugins[plugin.name] = plugin, for each callback in turn: a new name
\* is appended to the object's keys, a known name keeps its place.
RECURSIVE RegisterAll(_, _)
RegisterAll(registered, callbacks) ==
  IF callbacks = <<>> THEN registered
  ELSE LET plugin == Head(callbacks)
           known == {i \in 1..Len(registered) : registered[i].name = plugin.name}
       IN RegisterAll(
            IF known = {} THEN Append(registered, plugin)
            ELSE [i \in 1..Len(registered) |->
                    IF i \in known THEN plugin ELSE registered[i]],
            Tail(callbacks))

\* GLTFLoader.parse: the version check, then a parser with the plugins
\* registered, then GLTFParser.parse, which clears the caches and requests
\* the roots in the reaction to the beforeRoot hooks.
LoaderParse(version) ==
  /\ phase = "idle"
  /\ assetVersion' = version
  /\ IF UnsupportedAsset(version)
     THEN /\ onErrorCalls' = onErrorCalls + 1
          /\ phase' = "done"
          /\ UNCHANGED plugins
     ELSE /\ plugins' = RegisterAll(<<>>, pluginCallbacks)
          /\ phase' = "beforeRoot"
          /\ UNCHANGED onErrorCalls
  /\ UNCHANGED <<pluginCallbacks, cameraDefs, status, loads, calls, returned, log, winner,
                 value, rootsThrew, onLoadCalls, extCalls, fbxVars, parseVars>>

RequestRoots ==
  /\ phase = "beforeRoot"
  /\ LET st == getAll(Walk, RootKeys)
     IN Commit(st) /\ rootsThrew' = st.thrown
  /\ phase' = "requested"
  /\ UNCHANGED <<pluginCallbacks, plugins, cameraDefs, onLoadCalls, onErrorCalls, extCalls, assetVersion, fbxVars, parseVars>>

\* FileLoader / image loader callbacks of loadBuffer and loadImageSource.
IsFetch(k) == k[1] \in {"buffer", "image"}

FetchLoaded(k) ==
  /\ IsFetch(k) /\ status[k] = "pending" /\ winner[k] = 0
  /\ status' = [status EXCEPT ![k] = "fulfilled"]
  /\ value' = [value EXCEPT ![k] = "object"]
  /\ UNCHANGED <<pluginCallbacks, plugins, cameraDefs, loads, calls, returned, log, winner, phase,
                 rootsThrew, onLoadCalls, onErrorCalls, extCalls, assetVersion, fbxVars, parseVars>>

FetchFailed(k) ==
  /\ IsFetch(k) /\ status[k] = "pending" /\ winner[k] = 0
  /\ status' = [status EXCEPT ![k] = "rejected"]
  /\ UNCHANGED <<pluginCallbacks, plugins, cameraDefs, loads, calls, returned, log, winner, value, phase,
                 rootsThrew, onLoadCalls, onErrorCalls, extCalls, assetVersion, fbxVars, parseVars>>

\* The promise a plugin's hook returned settles.
PluginSettles(k) ==
  /\ status[k] = "pending" /\ winner[k] \in 1..Len(plugins)
  /\ IF plugins[winner[k]].kind = "promise"
     THEN /\ status' = [status EXCEPT ![k] = "fulfilled"]
          /\ value' = [value EXCEPT ![k] = "plugin"]
     ELSE /\ status' = [status EXCEPT ![k] = "rejected"]
          /\ UNCHANGED value
  /\ UNCHANGED <<pluginCallbacks, plugins, cameraDefs, loads, calls, returned, log, winner, phase,
                 rootsThrew, onLoadCalls, onErrorCalls, extCalls, assetVersion, fbxVars, parseVars>>

\* Promise.all(pending).then(...): the reaction runs once every joined
\* promise is fulfilled; the join rejects as soon as one of them rejects.
AllResolvedAny(k) == \E d \in RangeOf(Deps(k)) : status[d] = "fulfilled"
AllResolved(k) == \A d \in RangeOf(Deps(k)) : status[d] = "fulfilled"
SomeRejected(k) == \E d \in RangeOf(Deps(k)) : status[d] = "rejected"

\* What the reaction of key k builds.
Assemble(k) ==
  CASE k[1] = "texture" -> "texture"
    [] k[1] = "material" ->
         IF \A d \in RangeOf(Deps(k)) : value[d] \in {"texture", "plugin"}
         THEN "mapped" ELSE "unmapped"
    [] OTHER -> "object"

CatchesAll(k) == TRUE
CatchesNothing(k) == FALSE
\* loadTextureImage ends in .catch(() => null).
CatchesRejection(k) == k[1] = "texture"

Joins(k) ==
  /\ ~IsFetch(k) /\ status[k] = "pending" /\ winner[k] = 0
  /\ \/ /\ AllResolved(k)
        /\ status' = [status EXCEPT ![k] = "fulfilled"]
        /\ value' = [value EXCEPT ![k] = Assemble(k)]
     \/ /\ SomeRejected(k)
        /\ IF CatchesRejection(k)
           THEN /\ status' = [status EXCEPT ![k] = "fulfilled"]
                /\ value' = [value EXCEPT ![k] = "null"]
           ELSE /\ status' = [status EXCEPT ![k] = "rejected"]
                /\ UNCHANGED value
  /\ UNCHANGED <<pluginCallbacks, plugins, cameraDefs, loads, calls, returned, log, winner, phase,
                 rootsThrew, onLoadCalls, onErrorCalls, extCalls, assetVersion, fbxVars, parseVars>>

\* The end of parse(): onLoad(result) once scenes, animations and cameras
\* are there, .catch(onError) otherwise.
RootsResolved == \A j \in 1..Len(RootKeys) : status[RootKeys[j]] \in {"fulfilled", "undef"}
RootsRejected == \E j \in 1..Len(RootKeys) : status[RootKeys[j]] = "rejected"

ParseSettles ==
  /\ phase = "requested"
  /\ \/ /\ ~rootsThrew /\ RootsResolved
        /\ onLoadCalls' = onLoadCalls + 1
        /\ UNCHANGED onErrorCalls
     \/ /\ rootsThrew \/ RootsRejected
        /\ onErrorCalls' = onErrorCalls + 1
        /\ UNCHANGED onLoadCalls
  /\ phase' = "done"
  /\ UNCHANGED <<pluginCallbacks, plugins, cameraDefs, status, loads, calls, returned, log, winner,
                 value, rootsThrew, extCalls, assetVersion, fbxVars, parseVars>>

\* User code (or a plugin's afterRoot) calls parser.getDependency itself.
ExternalKeys == {K("texture", 0), K("camera", 1)}

ExternalGet(k) ==
  /\ phase \in {"requested", "done"}
  /\ extCalls < MaxExternalCalls
  /\ Commit(getDependency(Walk, k))
  /\ extCalls' = extCalls + 1
  /\ UNCHANGED <<pluginCallbacks, plugins, cameraDefs, phase, rootsThrew, onLoadCalls, onErrorCalls, assetVersion,
                 fbxVars, parseVars>>

(***************************************************************************)
(* BinaryReader: a cursor over an ArrayBuffer.  The typed reads go through *)
(* DataView, which throws a RangeError when the read does not fit;         *)
(* getString builds a Uint8Array view, which throws likewise; skip and     *)
(* getArrayBuffer (ArrayBuffer.slice, which clamps) advance unchecked.     *)
(***************************************************************************)
MagicLength == 23
SeqsOf(S, n) == UNION {[1..m -> S] : m \in 0..n}
Widths == {1, 2, 4, 8}
Lengths == 0..MaxLength

Min(a, b) == IF a < b THEN a ELSE b
Max(a, b) == IF a > b THEN a ELSE b

Call(op, n, threw, bytes) == [op |-> op, n |-> n, threw |-> threw, bytes |-> bytes]

InitReader(sizes) ==
  /\ rSize \in sizes
  /\ rOffset = 0
  /\ rLast = Call("new", 0, FALSE, 0)
  /\ rCalls = 0

\* DataView.prototype.getXxx(byteOffset)
Fits(offset, width) == offset + width <= rSize

\* skip(length)
skip(length) ==
  /\ rCalls < MaxCalls
  /\ rOffset' = rOffset + length
  /\ rLast' = Call("skip", length, FALSE, 0)
  /\ rCalls' = rCalls + 1
  /\ UNCHANGED <<rSize, gltfVars, fbxVars, binaryVars, textVars, geoVars, meshVars, lateVars>>

\* getUint8, getInt16, getInt32, getUint32, getFloat32, getFloat64 (and
\* getBoolean, on top of getUint8), by the width of the type.
getTyped(width) ==
  /\ rCalls < MaxCalls
  /\ IF Fits(rOffset, width)
     THEN /\ rOffset' = rOffset + width
          /\ rLast' = Call("typed", width, FALSE, width)
     ELSE /\ rLast' = Call("typed", width, TRUE, 0)
          /\ UNCHANGED rOffset
  /\ rCalls' = rCalls + 1
  /\ UNCHANGED <<rSize, gltfVars, fbxVars, binaryVars, textVars, geoVars, meshVars, lateVars>>

\* getBooleanArray, getInt32Array, getFloat32Array, getFloat64Array:
\* size elements of one DataView read each; getInt64, getUint64 and
\* getInt64Array: two getUint32 per element.  The first read that does not
\* fit throws, what was read before it stays consumed.
ElementReads == {<<1, 1>>, <<4, 1>>, <<8, 1>>, <<4, 2>>}

getTypedArray(size, width, per) ==
  /\ rCalls < MaxCalls
  /\ LET room == IF rOffset <= rSize THEN (rSize - rOffset) \div width ELSE 0
         read == Min(size * per, room)
     IN /\ rOffset' = rOffset + read * width
        /\ rLast' = Call("array", size * per * width, read < size * per,
                         IF read < size * per THEN 0 ELSE size * per * width)
  /\ rCalls' = rCalls + 1
  /\ UNCHANGED <<rSize, gltfVars, fbxVars, binaryVars, textVars, geoVars, meshVars, lateVars>>

\* getArrayBuffer(size): this.dv.buffer.slice(offset, offset + size)
getArrayBuffer(size) ==
  /\ rCalls < MaxCalls
  /\ rOffset' = rOffset + size
  /\ rLast' = Call("arrayBuffer", size, FALSE,
                     Max(Min(rOffset + size, rSize) - Min(rOffset, rSize), 0))
  /\ rCalls' = rCalls + 1
  /\ UNCHANGED <<rSize, gltfVars, fbxVars, binaryVars, textVars, geoVars, meshVars, lateVars>>

\* getString(size): new Uint8Array(buffer, start, size), then skip(size)
getString(size) ==
  /\ rCalls < MaxCalls
  /\ IF rOffset + size <= rSize
     THEN /\ rOffset' = rOffset + size
          /\ rLast' = Call("string", size, FALSE, size)
     ELSE /\ rLast' = Call("string", size, TRUE, 0)
          /\ UNCHANGED rOffset
  /\ rCalls' = rCalls + 1
  /\ UNCHANGED <<rSize, gltfVars, fbxVars, binaryVars, textVars, geoVars, meshVars, lateVars>>

NextReader ==
  \/ \E length \in Lengths \cup {MagicLength} : skip(length)
  \/ \E width \in Widths : getTyped(width)
  \/ \E size \in Lengths \cup {1}, e \in ElementReads : getTypedArray(size, e[1], e[2])
  \/ \E size \in Lengths : getArrayBuffer(size)
  \/ \E size \in Lengths : getString(size)

(***************************************************************************)
(* BinaryParser.  The buffer is the 27 bytes of magic and version, the     *)
(* node records, and a footer of zero bytes; the records hold no           *)
(* compressed arrays.  Multi-byte fields are little-endian; a field        *)
(* beyond 16 bits reads as Saturated, larger than every offset.            *)
(***************************************************************************)
HeaderLength == 27
FooterLength == 176
Saturated == 100000

\* One node record of the input: where its endOffset field points, and
\* whether it carries one boolean property.
EndKinds == {"null", "self", "next", "last", "short", "far"}
Records == [end : EndKinds, property : BOOLEAN]

FieldWidth(wide) == IF wide THEN 8 ELSE 4
RecordLength(record, wide) ==
  3 * FieldWidth(wide) + 2 + (IF record.property THEN 2 ELSE 0)

RECURSIVE TotalLength(_, _)
TotalLength(records, wide) ==
  IF records = <<>> THEN 0
  ELSE RecordLength(Head(records), wide) + TotalLength(Tail(records), wide)

Zeros(n) == [i \in 1..n |-> 0]
Field(number, wide) == <<number % 256, number \div 256>> \o Zeros(FieldWidth(wide) - 2)

\* The bytes of the records from position i on, the first one at offset at.
RECURSIVE Encode(_, _, _, _)
Encode(records, i, at, wide) ==
  IF i > Len(records) THEN <<>>
  ELSE LET record == records[i]
           after == at + RecordLength(record, wide)
           endOffset ==
             CASE record.end = "null" -> 0
               [] record.end = "self" -> after
               [] record.end = "next" ->
                    IF i < Len(records)
                    THEN after + RecordLength(records[i + 1], wide) ELSE after
               [] record.end = "last" -> HeaderLength + TotalLength(records, wide)
               [] record.end = "short" -> at + 1
               [] OTHER -> HeaderLength + TotalLength(records, wide) + FooterLength + 1
       IN Field(endOffset, wide)
            \o Field(IF record.property THEN 1 ELSE 0, wide)
            \o Field(IF record.property THEN 2 ELSE 0, wide)
            \o <<1, 78>>
            \o (IF record.property THEN <<67, 1>> ELSE <<>>)
            \o Encode(records, i + 1, after, wide)

Buffers(wide) ==
  {Encode(records, 1, HeaderLength, wide) : records \in SeqsOf(Records, MaxRecords)}

InitBinary(contents, wides, pc) ==
  /\ bWide \in wides
  /\ bContent \in contents
  /\ bPc = pc
  /\ bStack = <<>>
  /\ bCalls = 0
  /\ bNulls = 0
  /\ bAdded = 0

\* DataView reads.
byteAt(offset) ==
  IF offset - HeaderLength + 1 \in 1..Len(bContent)
  THEN bContent[offset - HeaderLength + 1] ELSE 0

getUint32(offset) ==
  IF byteAt(offset + 2) # 0 \/ byteAt(offset + 3) # 0 THEN Saturated
  ELSE byteAt(offset) + 256 * byteAt(offset + 1)

getUint64(offset) ==
  IF getUint32(offset + 4) # 0 THEN Saturated ELSE getUint32(offset)

\* A reader position, or the exception that ended the reading.
At(offset) == [offset |-> offset, threw |-> FALSE]
Threw(offset) == [offset |-> offset, threw |-> TRUE]

\* parseProperty: the type character, then the value.
ScalarWidth(type) ==
  CASE type = 67 -> 1 [] type = 89 -> 2 [] type = 73 -> 4 [] type = 70 -> 4
    [] type = 68 -> 8 [] type = 76 -> 8 [] OTHER -> 0

ArrayWidth(type) ==
  CASE type \in {98, 99} -> 1 [] type \in {102, 105} -> 4
    [] type \in {100, 108} -> 8 [] OTHER -> 0

parseProperty(offset) ==
  IF ~Fits(offset, 1) THEN Threw(offset)
  ELSE LET type == byteAt(offset)
           o == offset + 1
       IN CASE ScalarWidth(type) > 0 ->
                 IF Fits(o, ScalarWidth(type)) THEN At(o + ScalarWidth(type))
                 ELSE Threw(IF type = 76 /\ Fits(o, 4) THEN o + 4 ELSE o)
            [] type = 82 ->
                 IF Fits(o, 4) THEN At(o + 4 + getUint32(o)) ELSE Threw(o)
            [] type = 83 ->
                 IF ~Fits(o, 4) THEN Threw(o)
                 ELSE IF Fits(o + 4, getUint32(o)) THEN At(o + 4 + getUint32(o))
                 ELSE Threw(o + 4)
            [] ArrayWidth(type) > 0 ->
                 IF ~Fits(o, 12) THEN Threw(o + 4 * ((Max(rSize - o, 0)) \div 4))
                 ELSE IF getUint32(o + 4) # 0
                 THEN Threw(o + 12 + getUint32(o + 8))
                 ELSE LET room == (rSize - (o + 12)) \div ArrayWidth(type)
                          size == getUint32(o)
                      IN IF size <= room THEN At(o + 12 + size * ArrayWidth(type))
                         ELSE Threw(o + 12 + room * ArrayWidth(type))
            [] OTHER -> Threw(o)

\* for (let i = 0; i < numProperties; i++) propertyList.push(parseProperty(reader))
RECURSIVE parseProperties(_, _)
parseProperties(position, numProperties) ==
  IF position.threw \/ numProperties = 0 THEN position
  ELSE parseProperties(parseProperty(position.offset), numProperties - 1)

\* The head of parseNode: endOffset, numProperties, propertyListLen,
\* nameLen and name.
readHeader(offset, wide) ==
  LET w == FieldWidth(wide)
      fields == offset + 3 * w
  IN IF ~Fits(offset, 3 * w)
     THEN [endOffset |-> 0, numProperties |-> 0, named |-> FALSE,
           position |-> Threw(offset + 4 * (Max(rSize - offset, 0) \div 4))]
     ELSE IF ~Fits(fields, 1)
     THEN [endOffset |-> 0, numProperties |-> 0, named |-> FALSE,
           position |-> Threw(fields)]
     ELSE [endOffset |-> IF wide THEN getUint64(offset) ELSE getUint32(offset),
           numProperties |-> IF wide THEN getUint64(offset + w) ELSE getUint32(offset + w),
           named |-> byteAt(fields) > 0 /\ byteAt(fields + 1) # 0,
           position |-> IF Fits(fields + 1, byteAt(fields))
                        THEN At(fields + 1 + byteAt(fields)) ELSE Threw(fields + 1)]

\* BinaryParser.endOfContent
endOfContent ==
  IF rSize % 16 = 0
  THEN (rOffset + 160 + 16) - ((rOffset + 160 + 16) % 16) >= rSize
  ELSE rOffset + 160 + 16 >= rSize

\* while (endOffset > reader.getOffset())
MoreChildrenOrEqual(endOffset, offset) == endOffset >= offset
MoreChildren(endOffset, offset) == endOffset > offset

\* BinaryParser.parse: skip(23), the version, then the loop over the
\* top-level nodes.
BinaryParse ==
  /\ bPc = "top"
  /\ bPc' = IF endOfContent THEN "done" ELSE "call"
  /\ UNCHANGED <<bContent, bWide, bStack, bCalls, bNulls, bAdded, readerVars,
                 gltfVars, fbxVars, textVars, geoVars, meshVars, lateVars>>

\* parseNode, from its call to the first test of its while loop.
ParseNodeBegin ==
  /\ bPc = "call"
  /\ bCalls' = bCalls + 1
  /\ LET header == readHeader(rOffset, bWide)
         position == IF header.position.threw \/ header.endOffset = 0
                     THEN header.position
                     ELSE parseProperties(header.position, header.numProperties)
     IN /\ rOffset' = position.offset
        /\ IF position.threw
           THEN bPc' = "threw" /\ UNCHANGED <<bStack, bNulls>>
           ELSE IF header.endOffset = 0
           THEN /\ bNulls' = bNulls + 1
                /\ bPc' = IF bStack = <<>> THEN "top" ELSE "loop"
                /\ UNCHANGED bStack
           ELSE /\ bStack' = Append(bStack, [endOffset |-> header.endOffset,
                                             named |-> header.named])
                /\ bPc' = "loop"
                /\ UNCHANGED bNulls
  /\ UNCHANGED <<bContent, bWide, bAdded, rSize, rLast, rCalls, gltfVars, fbxVars, textVars, geoVars, meshVars, lateVars>>

\* The while loop of parseNode: one more child, or the return of the
\* node to the caller, which attaches it.
ParseNodeLoop ==
  /\ bPc = "loop"
  /\ LET node == bStack[Len(bStack)]
     IN IF MoreChildren(node.endOffset, rOffset)
        THEN bPc' = "call" /\ UNCHANGED <<bStack, bAdded>>
        ELSE /\ bStack' = SubSeq(bStack, 1, Len(bStack) - 1)
             /\ bAdded' = IF Len(bStack) > 1 \/ node.named THEN bAdded + 1 ELSE bAdded
             /\ bPc' = IF Len(bStack) > 1 THEN "loop" ELSE "top"
  /\ UNCHANGED <<bContent, bWide, bCalls, bNulls, readerVars, gltfVars, fbxVars, textVars, geoVars, meshVars, lateVars>>

NextBinary == BinaryParse \/ ParseNodeBegin \/ ParseNodeLoop

(***************************************************************************)
(* TextParser.  parse splits the text into lines and handles them one by   *)
(* one.  A line of the input is a node opening "Name: {" or a closing "}"  *)
(* behind some tabs, an array property "a: ..." behind some tabs, a bare   *)
(* run of numbers (the continuation of an array), a comment, or the line   *)
(* made of a tab and the characters {-1}}.  A string is the sequence of    *)
(* its characters; NaN reads -1.                                           *)
(***************************************************************************)
NaN == -1

\* The number runs of the input, with the numbers they spell.
Values ==
  {[chars |-> <<"1", ",", "2", ",">>, elements |-> <<1, 2>>],
   [chars |-> <<"3">>, elements |-> <<3>>],
   [chars |-> <<"1", "0", ",", "5">>, elements |-> <<10, 5>>],
   [chars |-> <<"6", ",">>, elements |-> <<6>>]}

TextLines ==
  [kind : {"begin", "end"}, tabs : 0..MaxDepth]
    \cup [kind : {"a"}, tabs : 0..MaxDepth, value : Values]
    \cup [kind : {"cont"}, value : Values]
    \cup {[kind |-> "comment"], [kind |-> "literal"]}

\* The characters of a line that starts in column 0.
Text(line) ==
  CASE line.kind = "cont" -> line.value.chars
    [] line.kind = "a" -> <<"a", ":", " ">> \o line.value.chars
    [] OTHER -> <<"N", ":", " ", "{">>

\* line.match('^\\t{' + currentIndent + '}(\\w+):(.*){'): for a negative
\* count the braces are literal characters, which no node opening holds.
matchBeginning(line, indent) ==
  indent >= 0 /\ line.kind = "begin" /\ line.tabs = indent

\* line.match('^\\t{' + currentIndent + '}(\\w+):[\\s\\t\\r\\n](.*)')
matchProperty(line, indent) ==
  indent >= 0 /\ line.kind \in {"a", "begin"} /\ line.tabs = indent

\* line.match('^\\t{' + (currentIndent - 1) + '}}'): at currentIndent 0 the
\* pattern is a tab and the literal characters {-1}}.
matchEnd(line, indent) ==
  \/ indent >= 1 /\ line.kind = "end" /\ line.tabs = indent - 1
  \/ indent = 0 /\ line.kind = "literal"

\* line.match(/^[^\s\t}]/)
matchContinued(line) ==
  \/ line.kind = "cont"
  \/ line.kind \in {"a", "begin"} /\ line.tabs = 0

\* parseFloat: the number spelled by the leading digits.
RECURSIVE parseFloatFrom(_, _)
parseFloatFrom(chars, n) ==
  IF chars = <<>> \/ ~IsDigit(Head(chars)) THEN n
  ELSE parseFloatFrom(Tail(chars), 10 * n + ToNumber(Head(chars)))

parseFloat(chars) ==
  IF chars = <<>> \/ ~IsDigit(Head(chars)) THEN NaN ELSE parseFloatFrom(chars, 0)

\* value.split(',')
RECURSIVE split(_, _)
split(chars, piece) ==
  IF chars = <<>> THEN <<piece>>
  ELSE IF Head(chars) = "," THEN <<piece>> \o split(Tail(chars), <<>>)
  ELSE split(Tail(chars), Append(piece, Head(chars)))

parseNumberArray(chars) ==
  LET pieces == split(chars, <<>>)
  IN [i \in 1..Len(pieces) |-> parseFloat(pieces[i])]

\* String(number) and Array.prototype.toString
RECURSIVE toString(_)
toString(n) ==
  IF n = NaN THEN <<"NaN">>
  ELSE IF n < 10 THEN <<Digits[n + 1]>>
  ELSE toString(n \div 10) \o <<Digits[(n % 10) + 1]>>

RECURSIVE join(_)
join(array) ==
  IF array = <<>> THEN <<>>
  ELSE IF Len(array) = 1 THEN toString(array[1])
  ELSE toString(array[1]) \o <<",">> \o join(Tail(array))

\* The property a of a node: absent, a string, or an array of numbers.
NoA == [kind |-> "none", chars |-> <<>>, array |-> <<>>]
StringA(chars) == [kind |-> "string", chars |-> chars, array |-> <<>>]
ArrayA(array) == [kind |-> "array", chars |-> <<>>, array |-> array]

\* currentNode.a += line
ReplacedBy(a, chars) == chars
Continued(a, chars) ==
  (CASE a.kind = "none" -> <<"undefined">>
     [] a.kind = "string" -> a.chars
     [] OTHER -> join(a.array)) \o chars

EndsWithComma(chars) == chars # <<>> /\ chars[Len(chars)] = ","

InitText(pc) ==
  /\ nodeStack = <<>>
  /\ currentIndent = 0
  /\ tPc = pc
  /\ tLines = 0
  /\ tArray = <<>>
  /\ tOpen = FALSE
  /\ tOwner = 0

\* parseNodeBegin ... pushStack(node)
parseNodeBegin ==
  /\ nodeStack' = Append(nodeStack, NoA)
  /\ currentIndent' = currentIndent + 1
  /\ tPc' = tPc
  /\ tArray' = <<>> /\ tOpen' = FALSE /\ tOwner' = 0

\* parseNodeProperty for an a: line; the current node is
\* nodeStack[currentIndent - 1], undefined at the top level.
parseNodeProperty(line) ==
  IF currentIndent = 0
  THEN /\ tPc' = "threw"
       /\ UNCHANGED <<nodeStack, currentIndent>>
       /\ tArray' = <<>> /\ tOpen' = FALSE /\ tOwner' = 0
  ELSE /\ nodeStack' = [nodeStack EXCEPT ![currentIndent] =
                         IF EndsWithComma(line.value.chars)
                         THEN StringA(line.value.chars)
                         ELSE ArrayA(parseNumberArray(line.value.chars))]
       /\ tArray' = <<line.value>>
       /\ tOpen' = EndsWithComma(line.value.chars)
       /\ tOwner' = currentIndent
       /\ UNCHANGED <<currentIndent, tPc>>

\* popStack
popStack ==
  /\ nodeStack' = SubSeq(nodeStack, 1, Len(nodeStack) - 1)
  /\ currentIndent' = currentIndent - 1
  /\ tPc' = tPc
  /\ tArray' = <<>> /\ tOpen' = FALSE /\ tOwner' = 0

\* parseNodePropertyContinued
parseNodePropertyContinued(line) ==
  IF currentIndent < 1
  THEN /\ tPc' = "threw"
       /\ UNCHANGED <<nodeStack, currentIndent>>
       /\ tArray' = <<>> /\ tOpen' = FALSE /\ tOwner' = 0
  ELSE LET chars == Continued(nodeStack[currentIndent], Text(line))
       IN /\ nodeStack' = [nodeStack EXCEPT ![currentIndent] =
                              IF EndsWithComma(Text(line)) THEN StringA(chars)
                              ELSE ArrayA(parseNumberArray(chars))]
          /\ IF tOpen /\ line.kind = "cont"
             THEN /\ tArray' = Append(tArray, line.value)
                  /\ tOpen' = EndsWithComma(line.value.chars)
                  /\ tOwner' = tOwner
             ELSE tArray' = <<>> /\ tOpen' = FALSE /\ tOwner' = 0
          /\ UNCHANGED <<currentIndent, tPc>>

\* The callback of split.forEach for one line.  A node holds one a: line.
ParseLine(line) ==
  /\ tPc = "lines" /\ tLines < MaxLines
  /\ line.kind = "a" /\ matchProperty(line, currentIndent) /\ currentIndent >= 1
       => nodeStack[currentIndent].kind = "none"
  /\ tLines' = tLines + 1
  /\ IF line.kind = "comment"
     THEN UNCHANGED <<nodeStack, currentIndent, tPc, tArray, tOpen, tOwner>>
     ELSE IF matchBeginning(line, currentIndent) THEN parseNodeBegin
     ELSE IF matchProperty(line, currentIndent) THEN parseNodeProperty(line)
     ELSE IF matchEnd(line, currentIndent) THEN popStack
     ELSE IF matchContinued(line) THEN parseNodePropertyContinued(line)
     ELSE /\ UNCHANGED <<nodeStack, currentIndent, tPc>>
          /\ tArray' = <<>> /\ tOpen' = FALSE /\ tOwner' = 0
  /\ UNCHANGED <<gltfVars, fbxVars, readerVars, binaryVars, geoVars, meshVars, lateVars>>

NextText == \E line \in TextLines : ParseLine(line)

(***************************************************************************)
(* GeometryParser.genBuffers, genFace and getData.  A step is one call of  *)
(* the callback genBuffers hands to vertexIndices.forEach.  Weights are    *)
(* whole numbers (hundredths); an undefined or NaN index reads NaN.        *)
(***************************************************************************)
Vertices == 0..MaxVertex

\* vertexIndex ^ -1
Negate(x) == 0 - x
Complement(x) == (0 - x) - 1

\* One weight offered to the slots in turn: Weight.forEach(...)
RECURSIVE Offer(_, _, _)
Offer(slots, current, at) ==
  IF at > Len(slots) THEN slots
  ELSE IF current.weight > slots[at].weight
       THEN Offer([slots EXCEPT ![at] = current], slots[at], at + 1)
       ELSE Offer(slots, current, at + 1)

\* weights.forEach(...) over Weight = [0, 0, 0, 0], wIndex = [0, 0, 0, 0]
RECURSIVE Select(_, _)
Select(slots, entries) ==
  IF entries = <<>> THEN slots
  ELSE Select(Offer(slots, Head(entries), 1), Tail(entries))

Empty == [weight |-> 0, id |-> 0]

\* while (weights.length < 4) { weights.push(0); weightIndices.push(0) }
RECURSIVE Pad(_)
Pad(entries) == IF Len(entries) < 4 THEN Pad(Append(entries, Empty)) ELSE entries

\* The four (weight, bone index) slots of a vertex, genBuffers 420-470.
FirstFour(entries) == Pad(SubSeq(entries, 1, Min(4, Len(entries))))
Slots(entries) ==
  IF Len(entries) > 4 THEN Select(<<Empty, Empty, Empty, Empty>>, entries)
  ELSE Pad(entries)

\* array[index] of JavaScript, index counted from 0.
ElementAt(array, index) ==
  IF index \in 0..(Len(array) - 1) THEN array[index + 1] ELSE NaN

MappingTypes == {"ByPolygonVertex", "ByPolygon", "ByVertice", "ByVertex", "AllSame"}
ReferenceTypes == {"Direct", "IndexToDirect"}

\* The index getData computes, utils.ts 199-223.
IndexOf(pvi, pi, vi, infoObject) ==
  LET index == CASE infoObject.mappingType = "ByPolygonVertex" -> pvi
                 [] infoObject.mappingType = "ByPolygon" -> pi
                 [] infoObject.mappingType = "ByVertice" -> vi
                 [] infoObject.mappingType = "AllSame" -> ElementAt(infoObject.indices, 0)
                 [] OTHER -> 0
  IN IF infoObject.referenceType = "IndexToDirect"
     THEN ElementAt(infoObject.indices, index)
     ELSE index

\* slice(dataArray, buffer, from, to): nothing is copied when from is NaN,
\* and what dataArray held beyond to - from stays.
slice(a, b, index, dataSize) ==
  IF index = NaN THEN a
  ELSE [j \in 1..Max(Len(a), dataSize) |->
          IF j <= dataSize THEN ElementAt(b, index * dataSize + j - 1) ELSE a[j]]

getData(pvi, pi, vi, infoObject) ==
  slice(dataArray, infoObject.buffer, IndexOf(pvi, pi, vi, infoObject),
        infoObject.dataSize)

\* The contents of a layer's buffer: entry i holds 100 + i.
Buffer(length) == [i \in 1..length |-> 99 + i]

\* parseNormals and its like: indices is [] unless the reference type is
\* IndexToDirect.
DirectLayer(mappingType, dataSize) ==
  [mappingType |-> mappingType, referenceType |-> "Direct", indices |-> <<>>,
   dataSize |-> dataSize, buffer |-> Buffer(dataSize * (MaxEntries + 1))]

IndexedLayer(mappingType, dataSize, indices) ==
  [mappingType |-> mappingType, referenceType |-> "IndexToDirect",
   indices |-> indices, dataSize |-> dataSize,
   buffer |-> Buffer(dataSize * (MaxEntries + 1))]

\* ShapeUtils.triangulateShape cuts ears off a simple outline until a
\* triangle is left; which ears it cuts depends on the positions.
RECURSIVE Ears(_)
Ears(outline) ==
  IF Len(outline) < 3 THEN {<<>>}
  ELSE IF Len(outline) = 3 THEN {<<outline>>}
  ELSE UNION {
    LET n == Len(outline)
        prev == outline[IF i = 1 THEN n ELSE i - 1]
        next == outline[IF i = n THEN 1 ELSE i + 1]
        rest == [j \in 1..(n - 1) |-> outline[IF j < i THEN j ELSE j + 1]]
    IN {<<(<<prev, outline[i], next>>)>> \o t : t \in Ears(rest)}
    : i \in 1..Len(outline)}

\* The triangles genFace draws, as positions in the face: [[0, 1, 2]] for
\* a face of up to three vertices, else what triangulateShape returns,
\* which is nothing when the flattened vertices all coincide.
OneTriangle(length, form) == {<< <<0, 1, 2>> >>}
Triangles(length, form) ==
  IF length > 3
  THEN IF form = "coincident" THEN {<<>>}
       ELSE Ears([i \in 1..length |-> i - 1])
  ELSE {<< <<0, 1, 2>> >>}

NoWeights == [v \in Vertices |-> <<>>]

InitGeometry(indices, tables, layers, shapes) ==
  /\ vertexIndices \in indices
  /\ weightTable \in tables
  /\ layer \in layers
  /\ shape \in shapes
  /\ polygonVertexIndex = 0
  /\ polygonIndex = 0
  /\ faceLength = 0
  /\ facePositionIndexes = <<>>
  /\ faceWeights = <<>>
  /\ faces = <<>>
  /\ passed = <<>>
  /\ dataArray = <<>>

\* The callback of geoInfo.vertexIndices.forEach for the next entry,
\* genFace included when the entry ends a face.
GenBuffersStep ==
  /\ polygonVertexIndex < Len(vertexIndices)
  /\ LET entry == vertexIndices[polygonVertexIndex + 1]
         endOfFace == entry < 0
         vertexIndex == IF endOfFace THEN Complement(entry) ELSE entry
         positions == Append(facePositionIndexes, vertexIndex)
         weights == Append(faceWeights,
                           Slots(IF vertexIndex \in DOMAIN weightTable
                                 THEN weightTable[vertexIndex] ELSE <<>>))
         data == getData(polygonVertexIndex, polygonIndex, vertexIndex, layer)
     IN /\ polygonVertexIndex' = polygonVertexIndex + 1
        /\ dataArray' = data
        /\ passed' = Append(passed,
                            [polygonVertexIndex |-> polygonVertexIndex,
                             polygonIndex |-> polygonIndex,
                             vertexIndex |-> vertexIndex,
                             data |-> data])
        /\ IF endOfFace
           THEN /\ \E triangles \in Triangles(faceLength + 1, shape) :
                     faces' = Append(faces,
                       [vertices |-> positions,
                        weights |-> weights,
                        faceLength |-> faceLength + 1,
                        triangles |-> triangles,
                        corners |->
                          [t \in 1..Len(triangles) |->
                             [c \in 1..3 |-> ElementAt(positions, triangles[t][c])]]])
                /\ polygonIndex' = polygonIndex + 1
                /\ faceLength' = 0
                /\ facePositionIndexes' = <<>>
                /\ faceWeights' = <<>>
           ELSE /\ faceLength' = faceLength + 1
                /\ facePositionIndexes' = positions
                /\ faceWeights' = weights
                /\ UNCHANGED <<faces, polygonIndex>>
  /\ UNCHANGED <<vertexIndices, weightTable, layer, shape>>
  /\ UNCHANGED <<gltfVars, fbxVars, readerVars, binaryVars, textVars, meshVars, lateVars>>

NextGeometry == GenBuffersStep

(***************************************************************************)
(* FBXTreeParser.createMesh.  A material is its name; materialMap holds    *)
(* the default material, under defaultMaterialIndex, only when the file    *)
(* has no Material node (parseMaterials), and then no child of the mesh is *)
(* a material.                                                             *)
(***************************************************************************)
MaterialNames == <<"m1", "m2", "m3", "m4">>

\* materialMap.get(this.defaultMaterialIndex)
DefaultMaterial == IF hasDefault THEN "default" ELSE "undefined"

InitMesh(lists, indices, defaults, pc) ==
  /\ connected \in lists
  /\ groups \in indices
  /\ hasDefault \in IF connected = <<>> THEN defaults ELSE {FALSE}
  /\ meshPc = pc
  /\ mesh = [material |-> <<>>, groups |-> <<>>]

\* if (!materialIndex) throw ...: the first group of index 0, or 0 if none
FirstInvalid(indices) ==
  IF \E i \in 1..Len(indices) : indices[i] = 0
  THEN CHOOSE i \in 1..Len(indices) :
         indices[i] = 0 /\ \A j \in 1..(i - 1) : indices[j] # 0
  ELSE 0

\* materialIndex < 0 || materialIndex >= materials.length
OutOfRange(index, length) == index < 0 \/ index >= length

createMesh ==
  /\ meshPc = "ready"
  /\ LET materials == IF connected = <<>> THEN <<DefaultMaterial>> ELSE connected
         shared == Len(connected) > 1
         remapped == [i \in 1..Len(groups) |->
                        IF OutOfRange(groups[i], Len(materials))
                        THEN Len(materials) ELSE groups[i]]
         needsDefaultMaterial ==
           \E i \in 1..Len(groups) : OutOfRange(groups[i], Len(materials))
         pushed == IF needsDefaultMaterial
                   THEN Append(materials, DefaultMaterial) ELSE materials
     IN IF FirstInvalid(groups) # 0
        THEN /\ meshPc' = "threw"
             /\ mesh' = mesh
        ELSE /\ meshPc' = "done"
             /\ mesh' = [material |-> IF shared THEN pushed ELSE <<materials[1]>>,
                         groups |-> remapped]
  /\ UNCHANGED <<connected, groups, hasDefault>>
  /\ UNCHANGED <<gltfVars, fbxVars, readerVars, binaryVars, textVars, geoVars, lateVars>>

NextMesh == createMesh

(***************************************************************************)
(* AnimationParser.generateVectorTrack.  A curve is its times and its      *)
(* values; an axis without a curve reads as a curve without keys.          *)
(***************************************************************************)
Axes == <<"x", "y", "z">>

\* times.sort(function (a, b) { return a - b })
RECURSIVE Insert(_, _)
Insert(sorted, time) ==
  IF sorted = <<>> THEN <<time>>
  ELSE IF time < Head(sorted) THEN <<time>> \o sorted
  ELSE <<Head(sorted)>> \o Insert(Tail(sorted), time)

RECURSIVE Sort(_)
Sort(times) ==
  IF times = <<>> THEN <<>>
  ELSE Insert(Sort(SubSeq(times, 1, Len(times) - 1)), times[Len(times)])

\* and remove duplicates: a time is kept when it differs from lastValue
KeepDuplicates(times) == times
RECURSIVE RemoveDuplicates(_)
RemoveDuplicates(times) ==
  IF Len(times) <= 1 THEN times
  ELSE LET front == RemoveDuplicates(SubSeq(times, 1, Len(times) - 1))
           currentValue == times[Len(times)]
       IN IF currentValue # front[Len(front)]
          THEN Append(front, currentValue) ELSE front

getTimesForAllAxes(c) ==
  RemoveDuplicates(Sort(c.x.times \o c.y.times \o c.z.times))

\* curve.times.indexOf(time), counted from 1; 0 when the time is absent
indexOf(times, time) ==
  IF \E i \in 1..Len(times) : times[i] = time
  THEN CHOOSE i \in 1..Len(times) :
         times[i] = time /\ \A j \in 1..(i - 1) : times[j] # time
  ELSE 0

\* getKeyframeTrackValues: the values pushed for the first n times, one
\* triple per time, and prevValue after them.
RECURSIVE Pushed(_, _, _, _)
Pushed(times, c, initial, n) ==
  IF n = 0 THEN [values |-> <<>>, prevValue |-> initial]
  ELSE LET before == Pushed(times, c, initial, n - 1)
           frame == [a \in 1..3 |->
                       LET curve == c[Axes[a]]
                           index == indexOf(curve.times, times[n])
                       IN IF index # 0 THEN curve.values[index]
                          ELSE before.prevValue[a]]
       IN [values |-> before.values \o frame, prevValue |-> frame]

getKeyframeTrackValues(times, c, initial) ==
  Pushed(times, c, initial, Len(times)).values

NoCurve == [times |-> <<>>, values |-> <<>>]
NoCurves == [x |-> NoCurve, y |-> NoCurve, z |-> NoCurve]

InitVector(inputs, pc) ==
  /\ curves \in inputs
  /\ initialValue = <<0, 0, 0>>
  /\ vectorPc = pc
  /\ vectorTrack = [times |-> <<>>, values |-> <<>>]

generateVectorTrack ==
  /\ vectorPc = "ready"
  /\ LET times == getTimesForAllAxes(curves)
     IN vectorTrack' = [times |-> times,
                        values |-> getKeyframeTrackValues(times, curves, initialValue)]
  /\ vectorPc' = "done"
  /\ UNCHANGED <<curves, initialValue>>
  /\ UNCHANGED <<earlyVars, rotationVars, trackVars, accessorVars, loadVars, nameVars, refVars, managerVars>>

NextVector == generateVectorTrack

(***************************************************************************)
(* AnimationParser.interpolateRotations.  Key i of the three curves is at  *)
(* time i.  A sample is the time pushed, a fraction, and what its three    *)
(* values are: the converted values of a key, or the Euler angles of the   *)
(* slerp between two keys at step k.                                       *)
(***************************************************************************)
HalfTurn == 180

Abs(n) == IF n < 0 THEN 0 - n ELSE n

Max3(t) == Max(Max(t[1], t[2]), t[3])

\* absoluteSpan of the keys i - 1 and i
absoluteSpan(keys, i) == [a \in 1..3 |-> Abs(keys[i][a] - keys[i - 1][a])]

\* absoluteSpan[0] >= 180 || absoluteSpan[1] >= 180 || absoluteSpan[2] >= 180
Large(span) == \E a \in 1..3 : span[a] >= HalfTurn

KeySample(i) == [num |-> i, den |-> 1, kind |-> "key", key |-> i, step |-> 0]

\* for (let t = 0; t < 1; t += 1 / numSubIntervals) with numSubIntervals
\* = maxAbsSpan / 180: step k is at t = k * 180 / maxAbsSpan, pushed at
\* time initialTime + t * timeSpan with timeSpan 1.
RECURSIVE Slerped(_, _, _)
Slerped(i, maxAbsSpan, k) ==
  IF k * HalfTurn < maxAbsSpan
  THEN <<[num |-> (i - 1) * maxAbsSpan + k * HalfTurn, den |-> maxAbsSpan,
          kind |-> "slerp", key |-> i, step |-> k]>>
         \o Slerped(i, maxAbsSpan, k + 1)
  ELSE <<>>

\* The samples pushed for the keys 2..n after the first frame.
RECURSIVE Interpolate(_, _)
Interpolate(keys, n) ==
  IF n = 1 THEN <<KeySample(1)>>
  ELSE Interpolate(keys, n - 1) \o
       (IF Large(absoluteSpan(keys, n))
        THEN Slerped(n, Max3(absoluteSpan(keys, n)), 0)
        ELSE <<KeySample(n)>>)

InitInterpolate(inputs, pc) ==
  /\ keyframes \in inputs
  /\ interpolated = <<>>
  /\ interpolatePc = pc

interpolateRotations ==
  /\ interpolatePc = "ready"
  /\ interpolated' = Interpolate(keyframes, Len(keyframes))
  /\ interpolatePc' = "done"
  /\ UNCHANGED keyframes
  /\ UNCHANGED <<earlyVars, vectorVars, trackVars, accessorVars, loadVars, nameVars, refVars, managerVars>>

NextInterpolate == interpolateRotations

(***************************************************************************)
(* AnimationParser.generateRotationTrack, the loop over the Euler triples  *)
(* interpolateRotations returned.  Angles are whole half turns, for which  *)
(* the sines and cosines of the half angles are -1, 0 or 1 and the         *)
(* quaternions are exact.  A quaternion is <<x, y, z, w>>.                 *)
(***************************************************************************)
\* Math.cos and Math.sin of half of h half turns
Cos(h) == <<1, 0, -1, 0>>[(h % 4) + 1]
Sin(h) == <<0, 1, 0, -1>>[(h % 4) + 1]

\* Quaternion.setFromEuler for the order ZYX, the half angles of e
setFromEuler(e) ==
  LET c1 == Cos(e[1])  c2 == Cos(e[2])  c3 == Cos(e[3])
      s1 == Sin(e[1])  s2 == Sin(e[2])  s3 == Sin(e[3])
  IN <<s1 * c2 * c3 - c1 * s2 * s3,
       c1 * s2 * c3 + s1 * c2 * s3,
       c1 * c2 * s3 - s1 * s2 * c3,
       c1 * c2 * c3 + s1 * s2 * s3>>

\* Quaternion.multiplyQuaternions(a, b)
multiply(a, b) ==
  <<a[1] * b[4] + a[4] * b[1] + a[2] * b[3] - a[3] * b[2],
    a[2] * b[4] + a[4] * b[2] + a[3] * b[1] - a[1] * b[3],
    a[3] * b[4] + a[4] * b[3] + a[1] * b[2] - a[2] * b[1],
    a[4] * b[4] - a[1] * b[1] - a[2] * b[2] - a[3] * b[3]>>

\* Quaternion.invert of a unit quaternion
invert(q) == <<0 - q[1], 0 - q[2], 0 - q[3], q[4]>>

dot(a, b) == a[1] * b[1] + a[2] * b[2] + a[3] * b[3] + a[4] * b[4]

Negated(q) == <<0 - q[1], 0 - q[2], 0 - q[3], 0 - q[4]>>

\* quaternion.setFromEuler(euler), premultiply(preRotation),
\* multiply(postRotation)
Rotated(e, pre, post) ==
  multiply(multiply(setFromEuler(pre), setFromEuler(e)), invert(setFromEuler(post)))

\* prevQuat.dot(quaternion) < 0
UnrollsNonZero(prevQuat, quaternion) == dot(prevQuat, quaternion) # 0
Unrolls(prevQuat, quaternion) == dot(prevQuat, quaternion) < 0

\* The quaternions written for the first n triples.
RECURSIVE Track(_, _, _, _)
Track(values, pre, post, n) ==
  IF n = 0 THEN <<>>
  ELSE LET written == Track(values, pre, post, n - 1)
           quaternion == Rotated(values[n], pre, post)
       IN Append(written,
                 IF n > 1 /\ Unrolls(written[n - 1], quaternion)
                 THEN Negated(quaternion) ELSE quaternion)

InitTrack(inputs, rotations, pc) ==
  /\ eulers \in inputs
  /\ preRotation \in rotations
  /\ postRotation \in rotations
  /\ quaternionValues = <<>>
  /\ trackPc = pc

generateRotationTrack ==
  /\ trackPc = "ready"
  /\ quaternionValues' = Track(eulers, preRotation, postRotation, Len(eulers))
  /\ trackPc' = "done"
  /\ UNCHANGED <<eulers, preRotation, postRotation>>
  /\ UNCHANGED <<earlyVars, vectorVars, rotationVars, accessorVars, loadVars, nameVars, refVars, managerVars>>

NextTrack == generateRotationTrack

(***************************************************************************)
(* GLTFParser.loadAccessor, once its buffer views are loaded.  Components  *)
(* are 4 bytes wide and offsets and strides count components.  Element j   *)
(* of the accessor's buffer view holds 100 + j, element j of the sparse    *)
(* values 900 + j.  An attribute is the array it reads, the stride and     *)
(* offset it reads it with (an InterleavedBufferAttribute) or the item     *)
(* size as stride (a BufferAttribute), and its normalized flag.            *)
(***************************************************************************)
ViewKinds == {"none", "tight", "strided", "interleaved"}

AccessorDefs ==
  [count : 1..MaxCount, itemSize : 1..2, bufferView : ViewKinds,
   byteOffset : 0..1, normalized : BOOLEAN,
   sparse : SUBSET (0..(MaxCount - 1))]

NoAccessor ==
  [count |-> 1, itemSize |-> 1, bufferView |-> "none", byteOffset |-> 0,
   normalized |-> FALSE, sparse |-> {}]

\* GLTFBufferView[accessorDef.bufferView].byteStride over elementBytes;
\* 0 when the view has none.
byteStride(def) ==
  CASE def.bufferView = "strided" -> def.itemSize
    [] def.bufferView = "interleaved" -> 2 * def.itemSize
    [] OTHER -> 0

BufferView(def) == [j \in 1..(2 * def.itemSize * (MaxCount + 1)) |-> 99 + j]

\* The sparse indices in the order of the file, and the sparse values.
RECURSIVE Ascending(_)
Ascending(set) ==
  IF set = {} THEN <<>>
  ELSE LET least == CHOOSE i \in set : \A j \in set : i <= j
       IN <<least>> \o Ascending(set \ {least})

sparseValues(def) == [j \in 1..(Cardinality(def.sparse) * def.itemSize) |-> 899 + j]

\* new BufferAttribute(array, itemSize, normalized)
BufferAttribute(array, itemSize, normalized) ==
  [array |-> array, stride |-> itemSize, offset |-> 0, itemSize |-> itemSize,
   normalized |-> normalized]

\* The attribute before the sparse block is looked at, lines 912-960.
Dense(def) ==
  LET stride == byteStride(def)
      offset == def.byteOffset * def.itemSize
  IN IF stride # 0 /\ stride # def.itemSize
     THEN [array |-> SubSeq(BufferView(def),
                            (offset \div stride) * stride + 1,
                            (offset \div stride) * stride + def.count * stride),
           stride |-> stride, offset |-> offset % stride,
           itemSize |-> def.itemSize, normalized |-> def.normalized]
     ELSE IF def.bufferView = "none"
          THEN BufferAttribute([j \in 1..(def.count * def.itemSize) |-> 0],
                               def.itemSize, def.normalized)
          ELSE BufferAttribute(SubSeq(BufferView(def), offset + 1,
                                      offset + def.count * def.itemSize),
                               def.itemSize, def.normalized)

\* setX, setY, ...: a normalized attribute scales what it is given (by 127
\* for signed bytes).
Stored(attribute, x) == IF attribute.normalized THEN x * 127 ELSE x

RECURSIVE Overlay(_, _, _, _)
Overlay(attribute, indices, values, i) ==
  IF i > Len(indices) THEN attribute
  ELSE Overlay(
         [attribute EXCEPT !.array =
            [j \in 1..Len(attribute.array) |->
               IF \E c \in 0..(attribute.itemSize - 1) :
                    j = indices[i] * attribute.stride + attribute.offset + c + 1
               THEN Stored(attribute,
                           values[(i - 1) * attribute.itemSize
                                  + (j - (indices[i] * attribute.stride
                                          + attribute.offset))])
               ELSE attribute.array[j]]],
         indices, values, i + 1)

\* The sparse block, lines 963-1015: the attribute is replaced by a
\* BufferAttribute over a copy of its array unless there is no view.
Sparse(def, dense) ==
  LET copied == IF def.bufferView # "none"
                THEN BufferAttribute(dense.array, dense.itemSize, dense.normalized)
                ELSE dense
      written == Overlay([copied EXCEPT !.normalized = FALSE],
                         Ascending(def.sparse), sparseValues(def), 1)
  IN [written EXCEPT !.normalized = def.normalized]

InitAccessor(inputs, pc) ==
  /\ accessorDef \in inputs
  /\ bufferAttribute = BufferAttribute(<<>>, 1, FALSE)
  /\ accessorPc = pc

loadAccessor ==
  /\ accessorPc = "ready"
  /\ bufferAttribute' = IF accessorDef.sparse # {}
                        THEN Sparse(accessorDef, Dense(accessorDef))
                        ELSE Dense(accessorDef)
  /\ accessorPc' = "done"
  /\ UNCHANGED accessorDef
  /\ UNCHANGED <<earlyVars, vectorVars, rotationVars, trackVars, loadVars, nameVars, refVars, managerVars>>

NextAccessor == loadAccessor

(***************************************************************************)
(* The FBX loader.  FBXLoader.parse tokenizes the buffer into              *)
(* global.fbxTree and hands over to FBXTreeParser.parse, an async function *)
(* that awaits parseTextures before it builds materials, geometry and the  *)
(* scene out of the module-level state.                                    *)
(***************************************************************************)
Parses == {1, 2}
ConnIds == {1, 2}
Relationships == {"OO", "OP"}
Triples == {<<from, to, rel>> : from \in ConnIds, to \in ConnIds, rel \in Relationships}

MinBinaryVersion == 6400
MinAsciiVersion == 7000

SeqsUpTo(S, n) == UNION {[1..m -> S] : m \in 0..n}

\* The documents of a run with overlapping parses, and those of a run
\* that exercises the Connections block.
SmallPool ==
  {[fmt |-> f, version |-> v, textures |-> t, connections |-> c] :
     f \in {"binary", "ascii"}, v \in {6100, 6400, 7000, 7400}, t \in 0..MaxTextures,
     c \in {<<>>, <<<<1, 2, "OO">>>>}}
    \cup {[fmt |-> "unknown", version |-> 7400, textures |-> 0, connections |-> <<>>]}
ConnectionPool ==
  {[fmt |-> "binary", version |-> 7400, textures |-> 0, connections |-> c] :
     c \in SeqsUpTo(Triples, MaxConnections)}
    \cup {[fmt |-> "ascii", version |-> 7400, textures |-> t, connections |-> <<>>] :
            t \in 1..MaxTextures}

\* FBXTreeParser.parseConnections over the rawConnections from position i on.
RECURSIVE parseConnectionsFrom(_, _, _)
EmptyNode == [parents |-> <<>>, children |-> <<>>]
Ensure(connectionMap, id) ==
  IF id \in DOMAIN connectionMap THEN connectionMap
  ELSE connectionMap @@ (id :> EmptyNode)

AddConnectionOneWay(connectionMap, rawConnection) ==
  LET fromID == rawConnection[1]
      toID == rawConnection[2]
      m1 == Ensure(connectionMap, fromID)
      m2 == [m1 EXCEPT ![fromID].parents =
               Append(@, [ID |-> toID, relationship |-> rawConnection[3]])]
  IN Ensure(m2, toID)

AddConnection(connectionMap, rawConnection) ==
  LET fromID == rawConnection[1]
      toID == rawConnection[2]
      relationship == rawConnection[3]
      m1 == Ensure(connectionMap, fromID)
      m2 == [m1 EXCEPT ![fromID].parents =
               Append(@, [ID |-> toID, relationship |-> relationship])]
      m3 == Ensure(m2, toID)
  IN [m3 EXCEPT ![toID].children =
        Append(@, [ID |-> fromID, relationship |-> relationship])]

parseConnectionsFrom(connectionMap, rawConnections, i) ==
  IF i > Len(rawConnections) THEN connectionMap
  ELSE parseConnectionsFrom(AddConnection(connectionMap, rawConnections[i]),
                            rawConnections, i + 1)

parseConnections(fbxTree) == parseConnectionsFrom(<<>>, fbxTree.connections, 1)

AsciiAsBinary(doc) ==
  IF doc.fmt \in {"binary", "ascii"} THEN doc.version < MinBinaryVersion ELSE TRUE

\* The checks of FBXLoader.parse and BinaryParser.parse that throw.
Rejected(doc) ==
  CASE doc.fmt = "binary" -> doc.version < MinBinaryVersion
    [] doc.fmt = "ascii" -> doc.version < MinAsciiVersion
    [] OTHER -> TRUE

\* new FBXLoader(options)
NewLoader(p, wireframe) ==
  /\ p \in active /\ fbxPc[p] = "none"
  /\ fbxPc' = [fbxPc EXCEPT ![p] = "ready"]
  /\ fbxOption' = [fbxOption EXCEPT ![p] = wireframe]
  /\ gWireframe' = [flag |-> wireframe, by |-> p]
  /\ UNCHANGED <<gFbxTree, gConnections, gSceneGraph, fbxDoc, texturesLeft, readFrom,
                 fbxResult, active, pool, gltfVars, parseVars>>

\* FBXLoader.parse up to the first await of FBXTreeParser.parse: the
\* tokenizer, parseConnections, parseImages, and parseTextures up to the
\* load of the first texture (loadTexture looks it up in global.connections).
FbxParse(p, doc) ==
  /\ fbxPc[p] = "ready" /\ doc \in pool
  /\ fbxDoc' = [fbxDoc EXCEPT ![p] = doc]
  /\ IF Rejected(doc)
     THEN /\ fbxPc' = [fbxPc EXCEPT ![p] = "failed"]
          /\ UNCHANGED <<gFbxTree, gConnections, texturesLeft, readFrom>>
     ELSE /\ fbxPc' = [fbxPc EXCEPT ![p] = "suspended"]
          /\ gFbxTree' = [doc |-> doc, by |-> p]
          /\ gConnections' = [map |-> parseConnections(doc), by |-> p]
          /\ texturesLeft' = [texturesLeft EXCEPT ![p] = doc.textures]
          /\ readFrom' = [readFrom EXCEPT ![p] = @ \cup {p}]
  /\ UNCHANGED <<gWireframe, gSceneGraph, fbxOption, fbxResult, active, pool, gltfVars, parseVars>>

\* parseTextures resumes after one awaited texture and turns to the next.
TextureLoaded(p) ==
  /\ fbxPc[p] = "suspended" /\ texturesLeft[p] > 0
  /\ texturesLeft' = [texturesLeft EXCEPT ![p] = @ - 1]
  /\ readFrom' = [readFrom EXCEPT ![p] =
                    IF texturesLeft[p] > 1 THEN @ \cup {gConnections.by} ELSE @]
  /\ UNCHANGED <<gFbxTree, gConnections, gWireframe, gSceneGraph, fbxPc, fbxDoc,
                 fbxOption, fbxResult, active, pool, gltfVars, parseVars>>

\* FBXTreeParser.parse resumes after await parseTextures: parseMaterials,
\* parseDeformers, GeometryParser.parse and parseScene in one run.
FbxResume(p) ==
  /\ fbxPc[p] = "suspended" /\ texturesLeft[p] = 0
  /\ readFrom' = [readFrom EXCEPT ![p] =
                    @ \cup {gFbxTree.by, gConnections.by, gWireframe.by}]
  /\ fbxResult' = [fbxResult EXCEPT ![p] =
                     {[doc |-> gFbxTree.doc, connections |-> gConnections.map,
                       wireframe |-> gWireframe.flag]}]
  /\ gSceneGraph' = p
  /\ fbxPc' = [fbxPc EXCEPT ![p] = "done"]
  /\ UNCHANGED <<gFbxTree, gConnections, gWireframe, fbxDoc, fbxOption, texturesLeft,
                 active, pool, gltfVars, parseVars>>

InitGlobal(parses, documents) ==
  /\ gFbxTree = [doc |-> "empty", by |-> 0]
  /\ gConnections = [map |-> <<>>, by |-> 0]
  /\ gWireframe = [flag |-> TRUE, by |-> 0]
  /\ gSceneGraph = 0
  /\ fbxPc = [p \in Parses |-> "none"]
  /\ fbxDoc = [p \in Parses |-> "none"]
  /\ fbxOption = [p \in Parses |-> FALSE]
  /\ texturesLeft = [p \in Parses |-> 0]
  /\ readFrom = [p \in Parses |-> {}]
  /\ fbxResult = [p \in Parses |-> {}]
  /\ active = parses
  /\ pool = documents

(***************************************************************************)
(* FBXLoader.load: FileLoader.load with onProgress and onError handed      *)
(* through and, as its onLoad, the async arrow function                    *)
(* onLoad(await this.parse(buffer, path)).  What an async function throws  *)
(* rejects the promise it returned; nobody holds that promise.             *)
(***************************************************************************)
LoadInputs ==
  [fetch : {"loaded", "failed"}, doc : SmallPool, tree : {"built", "rejected"}]

NoLoad ==
  [fetch |-> "loaded",
   doc |-> [fmt |-> "unknown", version |-> 7400, textures |-> 0, connections |-> <<>>],
   tree |-> "built"]

NoCalls == [onLoad |-> 0, onError |-> 0, unhandled |-> 0]

InitLoad(inputs, pc) ==
  /\ loadInput \in inputs
  /\ loadCalled = NoCalls
  /\ loadPc = pc

\* load(url, onLoad, onProgress, onError) up to loader.load(...).
FbxLoad ==
  /\ loadPc = "ready"
  /\ loadPc' = "fetching"
  /\ UNCHANGED <<loadInput, loadCalled>>
  /\ UNCHANGED <<earlyVars, vectorVars, rotationVars, trackVars, accessorVars, nameVars, refVars, managerVars>>

\* The FileLoader fails and calls the onError it was given.
FbxFetchFailed ==
  /\ loadPc = "fetching" /\ loadInput.fetch = "failed"
  /\ loadCalled' = [loadCalled EXCEPT !.onError = @ + 1]
  /\ loadPc' = "settled"
  /\ UNCHANGED loadInput
  /\ UNCHANGED <<earlyVars, vectorVars, rotationVars, trackVars, accessorVars, nameVars, refVars, managerVars>>

\* The FileLoader calls the async arrow function with the buffer, which
\* runs this.parse up to the promise of FBXTreeParser.parse and awaits it.
FbxFetchLoaded ==
  /\ loadPc = "fetching" /\ loadInput.fetch = "loaded"
  /\ IF Rejected(loadInput.doc)
     THEN /\ loadCalled' = [loadCalled EXCEPT !.unhandled = @ + 1]
          /\ loadPc' = "settled"
     ELSE /\ loadPc' = "awaiting"
          /\ UNCHANGED loadCalled
  /\ UNCHANGED loadInput
  /\ UNCHANGED <<earlyVars, vectorVars, rotationVars, trackVars, accessorVars, nameVars, refVars, managerVars>>

\* The awaited promise settles: onLoad(group), or the rejection is thrown
\* inside the async function.
FbxParsed ==
  /\ loadPc = "awaiting"
  /\ loadCalled' = IF loadInput.tree = "rejected"
                   THEN [loadCalled EXCEPT !.unhandled = @ + 1]
                   ELSE [loadCalled EXCEPT !.onLoad = @ + 1]
  /\ loadPc' = "settled"
  /\ UNCHANGED loadInput
  /\ UNCHANGED <<earlyVars, vectorVars, rotationVars, trackVars, accessorVars, nameVars, refVars, managerVars>>

NextLoad == FbxLoad \/ FbxFetchFailed \/ FbxFetchLoaded \/ FbxParsed

(***************************************************************************)
(* GLTFParser.createUniqueName.  A name is a sequence of characters.       *)
(***************************************************************************)
\* PropertyBinding.sanitizeNodeName: white space becomes an underscore and
\* the reserved characters are dropped.
RECURSIVE sanitizeNodeName(_)
sanitizeNodeName(name) ==
  IF name = <<>> THEN <<>>
  ELSE CASE Head(name) = " " -> <<"_">> \o sanitizeNodeName(Tail(name))
         [] Head(name) \in {".", ":", "/", "[", "]"} -> sanitizeNodeName(Tail(name))
         [] OTHER -> <<Head(name)>> \o sanitizeNodeName(Tail(name))

\* String(n) for a counter.
RECURSIVE Decimal(_)
Decimal(n) ==
  LET digit == <<"0", "1", "2", "3", "4", "5", "6", "7", "8", "9">>[(n % 10) + 1]
  IN IF n < 10 THEN <<digit>> ELSE Decimal(n \div 10) \o <<digit>>

OriginalNames ==
  {<<"a">>, <<"a", "_", "1">>, <<"a", " ", "1">>, <<"a", ".">>, <<"b">>, <<>>}

InitNames ==
  /\ nodeNamesUsed = <<>>
  /\ uniqueNames = <<>>

createUniqueName(originalName) ==
  /\ Len(uniqueNames) < MaxNames
  /\ LET sanitizedName == sanitizeNodeName(originalName)
     IN IF sanitizedName \notin DOMAIN nodeNamesUsed
        THEN /\ nodeNamesUsed' = nodeNamesUsed @@ (sanitizedName :> 0)
             /\ uniqueNames' = Append(uniqueNames, sanitizedName)
        ELSE /\ nodeNamesUsed' = [nodeNamesUsed EXCEPT ![sanitizedName] = @ + 1]
             /\ uniqueNames' =
                  Append(uniqueNames,
                         sanitizedName \o <<"_">> \o Decimal(nodeNamesUsed[sanitizedName] + 1))
  /\ UNCHANGED <<earlyVars, vectorVars, rotationVars, trackVars, accessorVars, loadVars, refVars, managerVars>>

NextNames == \E originalName \in OriginalNames : createUniqueName(originalName)

(***************************************************************************)
(* Shared meshes, cameras and lights: _markDefs counts the node            *)
(* definitions that refer to an object, and each node's reaction to the    *)
(* loaded object asks _getNodeRef for the instance it will hold.           *)
(***************************************************************************)
Nodes == 1..MaxNodes
Kinds == {"mesh", "camera", "light"}

NoRef == [object |-> -1, suffix |-> -1]

InitRefs(inputs, pc) ==
  /\ nodeDefs \in inputs
  /\ refCache = [kind \in Kinds |-> [refs |-> 0, uses |-> 0]]
  /\ objects = [kind \in Kinds |-> 0]
  /\ nodeRefs = [n \in Nodes |-> [kind \in Kinds |-> NoRef]]
  /\ refPc = pc

\* _addNodeRef for every node definition, from first to last.
RECURSIVE markFrom(_, _)
markFrom(cache, nodeIndex) ==
  IF nodeIndex > MaxNodes THEN cache
  ELSE markFrom([kind \in Kinds |->
                   IF kind \in nodeDefs[nodeIndex]
                   THEN [cache[kind] EXCEPT !.refs = @ + 1]
                   ELSE cache[kind]],
                nodeIndex + 1)

\* GLTFParser._markDefs and GLTFLightsExtension._markDefs, from parse().
markDefs ==
  /\ refPc = "ready"
  /\ refCache' = markFrom(refCache, 1)
  /\ refPc' = "marked"
  /\ UNCHANGED <<nodeDefs, objects, nodeRefs>>
  /\ UNCHANGED <<earlyVars, vectorVars, rotationVars, trackVars, accessorVars, loadVars, nameVars, managerVars>>

\* The test of _getNodeRef that hands out the object itself.
SharedAlways(cache) == TRUE
Shared(cache) == cache.refs <= 1

\* The reaction of node n to the loaded object of the kind: _getNodeRef.
getNodeRef(n, kind) ==
  /\ refPc = "marked"
  /\ kind \in nodeDefs[n] /\ nodeRefs[n][kind] = NoRef
  /\ IF Shared(refCache[kind])
     THEN /\ nodeRefs' = [nodeRefs EXCEPT ![n][kind] = [object |-> 0, suffix |-> -1]]
          /\ UNCHANGED <<refCache, objects>>
     ELSE /\ objects' = [objects EXCEPT ![kind] = @ + 1]
          /\ nodeRefs' = [nodeRefs EXCEPT ![n][kind] =
                            [object |-> objects[kind] + 1, suffix |-> refCache[kind].uses]]
          /\ refCache' = [refCache EXCEPT ![kind].uses = @ + 1]
  /\ UNCHANGED <<nodeDefs, refPc>>
  /\ UNCHANGED <<earlyVars, vectorVars, rotationVars, trackVars, accessorVars, loadVars, nameVars, managerVars>>

NextRefs == markDefs \/ \E n \in Nodes, kind \in Kinds : getNodeRef(n, kind)

(***************************************************************************)
(* GLTFLoader.load: itemStart, then FileLoader.load with _onError as its   *)
(* onError and, as its onLoad, this.parse(data, resourcePath, onLoad then  *)
(* itemEnd, _onError) inside try/catch.  GLTFLoader.parse ends by          *)
(* throwing, by calling onError and returning, or in GLTFParser.parse,     *)
(* whose promise chain calls onLoad(result) and, for a rejection or for    *)
(* what onLoad throws, .catch(onError).  The callbacks given to load are   *)
(* the caller's; its onError returns normally.                             *)
(***************************************************************************)
DataKinds ==
  {"json", "glb",       \* parsed, GLTFParser.parse started
   "badJson",           \* JSON.parse throws
   "badHeader",         \* new GLTFBinaryExtension throws: onError, return
   "noContent",         \* 'KHR_BINARY_GLTF extension not found' is thrown
   "oldVersion",        \* asset.version[0] < 2: onError, return
   "badDefs"}           \* GLTFParser.parse throws before its promise chain

GltfInputs ==
  [fetch : {"loaded", "failed"}, data : DataKinds, parser : {"resolves", "rejects"},
   onLoad : {"returns", "throws"}, onError : BOOLEAN]

NoGltfLoad ==
  [fetch |-> "loaded", data |-> "json", parser |-> "resolves", onLoad |-> "returns",
   onError |-> TRUE]

NoItems == [itemStart |-> 0, itemEnd |-> 0, itemError |-> 0, onLoad |-> 0, onError |-> 0]

InitManager(inputs, pc) ==
  /\ gltfInput \in inputs
  /\ manager = NoItems
  /\ gltfPc = pc

\* _onError: onError(e) if given, console.error otherwise; itemError; itemEnd.
onErrorWithoutEnd(m) ==
  [m EXCEPT !.onError = IF gltfInput.onError THEN @ + 1 ELSE @,
            !.itemError = @ + 1]
onError(m) ==
  [m EXCEPT !.onError = IF gltfInput.onError THEN @ + 1 ELSE @,
            !.itemError = @ + 1,
            !.itemEnd = @ + 1]

\* load(url, onLoad, onProgress, onError) up to loader.load(...).
GltfLoad ==
  /\ gltfPc = "ready"
  /\ manager' = [manager EXCEPT !.itemStart = @ + 1]
  /\ gltfPc' = "fetching"
  /\ UNCHANGED gltfInput
  /\ UNCHANGED <<earlyVars, vectorVars, rotationVars, trackVars, accessorVars, loadVars, nameVars, refVars>>

\* The FileLoader fails and calls _onError.
GltfFetchFailed ==
  /\ gltfPc = "fetching" /\ gltfInput.fetch = "failed"
  /\ manager' = onError(manager)
  /\ gltfPc' = "settled"
  /\ UNCHANGED gltfInput
  /\ UNCHANGED <<earlyVars, vectorVars, rotationVars, trackVars, accessorVars, loadVars, nameVars, refVars>>

\* The FileLoader calls back with the data: try { this.parse(...) }
\* catch (e) { _onError(e) }.
GltfFetchLoaded ==
  /\ gltfPc = "fetching" /\ gltfInput.fetch = "loaded"
  /\ IF gltfInput.data \in {"json", "glb"}
     THEN /\ gltfPc' = "parsing"
          /\ UNCHANGED manager
     ELSE /\ manager' = onError(manager)
          /\ gltfPc' = "settled"
  /\ UNCHANGED gltfInput
  /\ UNCHANGED <<earlyVars, vectorVars, rotationVars, trackVars, accessorVars, loadVars, nameVars, refVars>>

\* The promise chain of GLTFParser.parse ends: onLoad(result) followed by
\* itemEnd, or .catch(onError) for a rejection and for what onLoad threw.
GltfParserSettles ==
  /\ gltfPc = "parsing"
  /\ manager' =
       IF gltfInput.parser = "rejects" THEN onError(manager)
       ELSE LET called == [manager EXCEPT !.onLoad = @ + 1]
            IN IF gltfInput.onLoad = "throws" THEN onError(called)
               ELSE [called EXCEPT !.itemEnd = @ + 1]
  /\ gltfPc' = "settled"
  /\ UNCHANGED gltfInput
  /\ UNCHANGED <<earlyVars, vectorVars, rotationVars, trackVars, accessorVars, loadVars, nameVars, refVars>>

NextManager == GltfLoad \/ GltfFetchFailed \/ GltfFetchLoaded \/ GltfParserSettles

\* Every parser component but the named one at rest.
Quiet(component) ==
  /\ component # "reader" /\ component # "binary" => InitReader({0})
  /\ component # "binary" => InitBinary({<<>>}, {FALSE}, "idle")
  /\ component # "text" => InitText("idle")
  /\ component # "mesh" => InitMesh({<<>>}, {<<>>}, {FALSE}, "idle")
  /\ component # "vector" => InitVector({NoCurves}, "idle")
  /\ component # "rotation" => InitInterpolate({<<>>}, "idle")
  /\ component # "track" => InitTrack({<<>>}, {<<0, 0, 0>>}, "idle")
  /\ component # "accessor" => InitAccessor({NoAccessor}, "idle")
  /\ component # "load" => InitLoad({NoLoad}, "idle")
  /\ InitNames
  /\ component # "refs" => InitRefs({[n \in Nodes |-> {}]}, "idle")
  /\ component # "manager" => InitManager({NoGltfLoad}, "idle")
  /\ component # "geometry" =>
       InitGeometry({<<>>}, {NoWeights}, {DirectLayer("ByPolygon", 1)}, {"simple"})

InitFbx(parses, documents) == InitGlobal(parses, documents) /\ Quiet("none")

InitQuiet(component) ==
  /\ pluginCallbacks = <<>>
  /\ cameraDefs = [i \in 0..1 |-> "ok"]
  /\ InitCaches
  /\ InitGlobal({}, {})
  /\ Quiet(component)

AssetVersions ==
  {<<"0", ".", "9">>, <<"1", ".", "0">>, <<"2", ".", "0">>, <<"1", "0", ".", "0">>}

NextFbx ==
  \/ \E p \in Parses, wireframe \in BOOLEAN : NewLoader(p, wireframe)
  \/ \E p \in Parses, doc \in SmallPool \cup ConnectionPool : FbxParse(p, doc)
  \/ \E p \in Parses : TextureLoaded(p)
  \/ \E p \in Parses : FbxResume(p)

NextGltf ==
  \/ \E version \in AssetVersions : LoaderParse(version)
  \/ RequestRoots
  \/ \E k \in Keys : FetchLoaded(k)
  \/ \E k \in Keys : FetchFailed(k)
  \/ \E k \in Keys : Joins(k)
  \/ ParseSettles
  \/ \E k \in ExternalKeys : ExternalGet(k)

NextPlugins ==
  \/ \E version \in AssetVersions : LoaderParse(version)
  \/ RequestRoots
  \/ \E k \in Keys : FetchLoaded(k)
  \/ \E k \in Keys : PluginSettles(k)
  \/ \E k \in Keys : Joins(k)
  \/ ParseSettles

NextLoaders ==
  \/ \E version \in AssetVersions : LoaderParse(version)
  \/ RequestRoots
  \/ \E k \in Keys : FetchLoaded(k)
  \/ \E k \in Keys : Joins(k)
  \/ ParseSettles
  \/ \E p \in Parses, wireframe \in BOOLEAN : NewLoader(p, wireframe)
  \/ \E p \in Parses, doc \in SmallPool : FbxParse(p, doc)
  \/ \E p \in Parses : TextureLoaded(p)
  \/ \E p \in Parses : FbxResume(p)

\* The glTF parser without plugins: fetches may fail, cameras may lack
\* their parameters, user code may call getDependency.
InitGltf ==
  /\ pluginCallbacks = <<>>
  /\ cameraDefs \in [0..1 -> {"ok", "missing"}]
  /\ InitCaches
  /\ InitFbx({}, {})

\* The glTF parser with plugins registered: every fetch succeeds.
InitPlugins ==
  /\ pluginCallbacks \in PluginLists
  /\ cameraDefs = [i \in 0..1 |-> "ok"]
  /\ InitCaches
  /\ InitFbx({}, {})

\* Two FBX parses, each on a loader of its own, free to overlap.
InitOverlap ==
  /\ pluginCallbacks = <<>>
  /\ cameraDefs = [i \in 0..1 |-> "ok"]
  /\ InitCaches
  /\ InitFbx(Parses, SmallPool)

\* One FBX parse over documents with a Connections block.
InitConnections ==
  /\ pluginCallbacks = <<>>
  /\ cameraDefs = [i \in 0..1 |-> "ok"]
  /\ InitCaches
  /\ InitFbx({1}, ConnectionPool)

\* One FBX parse and one glTF parse, of any version.
InitLoaders ==
  /\ pluginCallbacks = <<>>
  /\ cameraDefs = [i \in 0..1 |-> "ok"]
  /\ InitCaches
  /\ InitFbx({1}, SmallPool)

\* A BinaryReader over a buffer of any size, called in any order.
InitBinaryReader == InitQuiet("reader") /\ InitReader(0..MaxBytes)

\* BinaryParser.parse over buffers of up to MaxRecords node records, of
\* either header width, 16-byte aligned or not.
InitBinaryParser ==
  /\ InitQuiet("binary")
  /\ \E wide \in BOOLEAN : InitBinary(Buffers(wide), {wide}, "top")
  /\ rSize \in {HeaderLength + Len(bContent) + FooterLength,
                 16 * ((HeaderLength + Len(bContent) + FooterLength + 15) \div 16)}
  /\ rOffset = HeaderLength
  /\ rLast = Call("typed", 4, FALSE, 4)
  /\ rCalls = 2

\* TextParser.parse over every text of up to MaxLines lines.
InitTextParser == InitQuiet("text") /\ InitText("lines")

\* genBuffers over every polygon index array of up to MaxEntries entries.
PolygonEntries == (0..MaxVertex) \cup {(0 - v) - 1 : v \in 0..MaxVertex}

InitFaces ==
  /\ InitQuiet("geometry")
  /\ InitGeometry(SeqsUpTo(PolygonEntries, MaxEntries), {NoWeights},
                  {DirectLayer("ByPolygon", 1)}, {"simple", "coincident"})

\* genBuffers over every weight table of up to MaxWeights deformers on
\* vertex 0, each deformer with its own bone index; vertex 1 has no
\* deformer and vertex 2 is not in the table.
WeightValues == {5, 10, 15, 30, 40}

WeightTables ==
  {[v \in 0..1 |->
      IF v = 0 THEN [i \in 1..Len(weights) |-> [weight |-> weights[i], id |-> 10 + i]]
      ELSE <<>>] : weights \in SeqsUpTo(WeightValues, MaxWeights)}

InitWeights ==
  /\ InitQuiet("geometry")
  /\ InitGeometry({<<0, 1, -3>>}, WeightTables,
                  {DirectLayer("ByPolygon", 1)}, {"simple"})

\* genBuffers with every layer: each mapping type, direct or through an
\* index buffer, with one to three values per element.
DataSizes == 1..3

Layers ==
  {DirectLayer(m, d) : m \in MappingTypes, d \in DataSizes}
    \cup {IndexedLayer(m, d, i) : m \in MappingTypes, d \in DataSizes,
                                 i \in {<<2, 0, 1, 1, 0>>, <<4, 3, 2, 1, 0>>}}

InitData ==
  /\ InitQuiet("geometry")
  /\ InitGeometry({<<0, 1, -3, 2, -1>>}, {NoWeights}, Layers, {"simple"})

\* createMesh for every mesh of up to MaxMaterials materials and every
\* geometry of up to MaxGroups groups; genBuffers turns a negative
\* material index into 0.
InitCreateMesh ==
  /\ InitQuiet("mesh")
  /\ InitMesh({SubSeq(MaterialNames, 1, n) : n \in 0..MaxMaterials},
              SeqsUpTo(0..(MaxMaterials + 1), MaxGroups), BOOLEAN, "ready")

\* generateVectorTrack for every three curves with keys at some of the
\* times 1..MaxTime, in increasing order, each key 5 or 7.
KeyValues == {5, 7}

RECURSIVE KeysAmong(_)
KeysAmong(n) ==
  IF n = 0 THEN {NoCurve}
  ELSE LET shorter == KeysAmong(n - 1)
       IN shorter \cup
          {[times |-> Append(c.times, n), values |-> Append(c.values, v)] :
             c \in shorter, v \in KeyValues}

InitVectorTrack ==
  /\ InitQuiet("vector")
  /\ InitVector([x : KeysAmong(MaxTime), y : KeysAmong(MaxTime),
                 z : KeysAmong(MaxTime)], "ready")

\* interpolateRotations for every one to MaxKeys keys, in degrees.
Rotations == {<<x, y, 0>> : x \in {0, 90, 180, 190, 360}, y \in {0, 180}}

InitRotations ==
  /\ InitQuiet("rotation")
  /\ InitInterpolate(SeqsUpTo(Rotations, MaxKeys) \ {<<>>}, "ready")

\* generateRotationTrack for every one to MaxKeys Euler triples of whole
\* half turns, with and without pre- and post-rotation.
HalfTurns == {<<x, y, z>> : x \in 0..3, y \in 0..1, z \in 0..1}

InitRotationTrack ==
  /\ InitQuiet("track")
  /\ InitTrack(SeqsUpTo(HalfTurns, MaxKeys) \ {<<>>},
               {<<0, 0, 0>>, <<1, 0, 0>>}, "ready")

\* loadAccessor for every accessor of up to MaxCount elements whose
\* sparse indices are below its count.
InitLoadAccessor ==
  /\ InitQuiet("accessor")
  /\ InitAccessor({def \in AccessorDefs :
                     /\ def.sparse \subseteq 0..(def.count - 1)
                     /\ def.bufferView = "none" => def.byteOffset = 0}, "ready")

InitFbxLoad == InitQuiet("load") /\ InitLoad(LoadInputs, "ready")

InitUniqueNames == InitQuiet("names")

InitNodeRefs == InitQuiet("refs") /\ InitRefs([Nodes -> SUBSET Kinds], "ready")

InitGltfLoad == InitQuiet("manager") /\ InitManager(GltfInputs, "ready")

SpecGltf == InitGltf /\ [][NextGltf]_vars
SpecPlugins == InitPlugins /\ [][NextPlugins]_vars
SpecOverlap == InitOverlap /\ [][NextFbx]_vars
SpecConnections == InitConnections /\ [][NextFbx]_vars
SpecLoaders == InitLoaders /\ [][NextLoaders]_vars
SpecReader == InitBinaryReader /\ [][NextReader]_vars
SpecText == InitTextParser /\ [][NextText]_vars
SpecFaces == InitFaces /\ [][NextGeometry]_vars
SpecWeights == InitWeights /\ [][NextGeometry]_vars
SpecData == InitData /\ [][NextGeometry]_vars
SpecMesh == InitCreateMesh /\ [][NextMesh]_vars
SpecVector == InitVectorTrack /\ [][NextVector]_vars
SpecInterpolate == InitRotations /\ [][NextInterpolate]_vars
SpecTrack == InitRotationTrack /\ [][NextTrack]_vars
SpecAccessor == InitLoadAccessor /\ [][NextAccessor]_vars
SpecLoad == InitFbxLoad /\ [][NextLoad]_vars
SpecNames == InitUniqueNames /\ [][NextNames]_vars
SpecRefs == InitNodeRefs /\ [][NextRefs]_vars
\* The FileLoader calls one of its callbacks and promise reactions run.
SpecManager == InitGltfLoad /\ [][NextManager]_vars /\ WF_vars(NextManager)
SpecBinary == InitBinaryParser /\ [][NextBinary]_vars /\ WF_vars(NextBinary)

(***************************************************************************)
(* Properties.                                                             *)
(***************************************************************************)

\* C1: within one parse every getDependency(type, index) call returns the
\* same promise and the element's loader is invoked at most once.
C1_SamePromiseLoadedOnce ==
  \A k \in DepKeys : loads[k] <= 1 /\ returned[k] \subseteq {1}

\* C2: the assembly of a node, of a mesh and of a scene runs only after
\* every dependency it requested has resolved.
Assembled == {"scene", "node", "nodeShallow", "mesh", "skin"}
C2_AssemblyAfterDependencies ==
  \A k \in Keys :
    k[1] \in Assembled /\ winner[k] = 0 /\ status[k] = "fulfilled"
      => \A d \in RangeOf(Deps(k)) : status[d] = "fulfilled"

\* Node 0 (child, skin, mesh with material and texture) is assembled while
\* its sibling's mesh is not yet there.
C2_Witness ==
  /\ status[K("node", 0)] = "fulfilled"
  /\ status[K("mesh", 1)] = "pending"

\* The registered callbacks that define the hook of key k, and those among
\* them whose hook does not come back with null.
Positions == [i \in 1..Len(pluginCallbacks) |-> i]
Answers(k) ==
  {i \in 1..Len(pluginCallbacks) :
     HookResult(pluginCallbacks[i], k) \notin {"undef", "null"}}
First(S) == CHOOSE i \in S : \A j \in S : i <= j
Hooked(k, i) == pluginCallbacks[i].hook = k[1]
Called(k) ==
  IF Answers(k) = {}
  THEN SelectSeq(Positions, LAMBDA i : Hooked(k, i)) \o <<0>>
  ELSE SelectSeq(Positions, LAMBDA i : Hooked(k, i) /\ i <= First(Answers(k)))
Dispatched(k) == k[1] \in HookTypes /\ calls[k] > 0

\* C3: an intercepted load call tries the plugins in registration order,
\* stops at the first one with a non-null result, whose result it returns,
\* and reaches the built-in implementation only when all returned null.
C3_FirstNonNullWins ==
  \A k \in Keys :
    Dispatched(k) =>
      /\ log[k] = Called(k)
      /\ status[k] \in {"pending", "fulfilled", "rejected"} =>
           winner[k] = IF Answers(k) = {} THEN 0 ELSE First(Answers(k))

\* The first mesh plugin declined, the second one's promise was taken.
C3_Witness ==
  /\ log[K("mesh", 0)] = <<1, 2>>
  /\ winner[K("mesh", 0)] = 2
  /\ status[K("mesh", 0)] = "fulfilled"

Fails(k, i) == i >= 1 /\ HookResult(plugins[i], k) \in {"throw", "reject"}

C6_NullTexture ==
  status[K("image", 0)] = "rejected" =>
    /\ status[K("texture", 0)] # "rejected"
    /\ status[K("texture", 0)] = "fulfilled" => value[K("texture", 0)] = "null"
    /\ status[K("material", 0)] # "rejected"
    /\ status[K("material", 0)] = "fulfilled" => value[K("material", 0)] = "unmapped"
    /\ status[K("mesh", 0)] = "rejected" => status[K("geometry", 0)] = "rejected"

\* The image failed, and the mesh was assembled with the unmapped material.
C6_Witness ==
  /\ status[K("image", 0)] = "rejected"
  /\ value[K("texture", 0)] = "null"
  /\ value[K("material", 0)] = "unmapped"
  /\ status[K("mesh", 0)] = "fulfilled"

\* C7: an FBX parse has no suspension point: while one parse is between
\* its start and its scene graph, no other parse is.
C7_NoSuspension ==
  \A p, q \in Parses :
    fbxPc[p] = "suspended" /\ fbxPc[q] = "suspended" => p = q

\* C8: an FBX parse reads no module-level state written by another parse
\* or another loader; its result is built from its own input and options.
C8_OwnStateOnly ==
  \A p \in Parses :
    /\ readFrom[p] \subseteq {p}
    /\ fbxPc[p] = "done" =>
         fbxResult[p] = {[doc |-> fbxDoc[p],
                          connections |-> parseConnections(fbxDoc[p]),
                          wireframe |-> fbxOption[p]]}

\* The major version of an asset.version string.
RECURSIVE Major(_, _)
Major(version, n) ==
  IF version = <<>> \/ ~IsDigit(Head(version)) THEN n
  ELSE Major(Tail(version), 10 * n + ToNumber(Head(version)))

\* C9: an FBX binary of version < 6400, an FBX text of FBXVersion < 7000
\* and a glTF asset of major version < 2 abort with an error and deliver
\* no scene; for glTF, onError is called and onLoad never.
C9_UnsupportedVersionAborts ==
  /\ \A p \in Parses :
       /\ fbxPc[p] \notin {"none", "ready"}
       /\ \/ fbxDoc[p].fmt = "binary" /\ fbxDoc[p].version < 6400
          \/ fbxDoc[p].fmt = "ascii" /\ fbxDoc[p].version < 7000
       => /\ fbxPc[p] = "failed"
          /\ fbxResult[p] = {}
          /\ gFbxTree.by # p /\ gSceneGraph # p
  /\ assetVersion # <<>> /\ Major(assetVersion, 0) < 2 =>
       /\ phase = "done"
       /\ onErrorCalls = 1 /\ onLoadCalls = 0
       /\ \A k \in Keys : status[k] = "absent"

\* An FBX text of version 6400 and a glTF 1.0 asset were both turned down.
C9_Witness ==
  /\ fbxPc[1] = "failed"
  /\ fbxDoc[1].fmt = "ascii" /\ fbxDoc[1].version = 6400
  /\ assetVersion = <<"1", ".", "0">>
  /\ onErrorCalls = 1

\* The entries of a connection map.
Entries(connectionMap, id, side) ==
  IF id \in DOMAIN connectionMap THEN connectionMap[id][side] ELSE <<>>
Occurrences(s, e) == Cardinality({i \in 1..Len(s) : s[i] = e})
Listed(s, id) == \E i \in 1..Len(s) : s[i].ID = id
RECURSIVE Total(_, _)
Total(connectionMap, ids) ==
  IF ids = {} THEN 0
  ELSE LET id == CHOOSE id \in ids : TRUE
       IN Len(connectionMap[id].parents) + Len(connectionMap[id].children)
            + Total(connectionMap, ids \ {id})

\* C10: each triple (from, to, relationship) contributes two entries to
\* the connection map, one in each direction and both with its tag; X is
\* among the children of Y exactly if Y is among the parents of X.
C10_SymmetricConnections ==
  gConnections.by # 0 =>
    LET raw == fbxDoc[gConnections.by].connections
        m == gConnections.map
    IN /\ \A X, Y \in ConnIds, rel \in Relationships :
            /\ Occurrences(Entries(m, X, "parents"), [ID |-> Y, relationship |-> rel])
                 = Occurrences(raw, <<X, Y, rel>>)
            /\ Occurrences(Entries(m, Y, "children"), [ID |-> X, relationship |-> rel])
                 = Occurrences(raw, <<X, Y, rel>>)
       /\ \A X, Y \in ConnIds :
            Listed(Entries(m, Y, "children"), X) <=> Listed(Entries(m, X, "parents"), Y)
       /\ Total(m, DOMAIN m) = 2 * Len(raw)
       /\ DOMAIN m = {raw[i][1] : i \in 1..Len(raw)} \cup {raw[i][2] : i \in 1..Len(raw)}

\* A block with object 1 connected to object 2 and to itself.
C10_Witness ==
  /\ gConnections.by = 1
  /\ fbxDoc[1].connections = <<<<1, 2, "OO">>, <<1, 1, "OP">>>>
  /\ Len(gConnections.map[1].parents) = 2
  /\ Len(gConnections.map[2].children) = 1

\* C11: the BinaryReader offset is at most the byte length of the buffer
\* after every typed read, array read, skip, getString and getArrayBuffer.
C11_OffsetWithinBuffer == rOffset <= rSize

\* C12: a read that would extend past the end of the buffer throws
\* instead of returning a value: what returns, returns all it was asked.
C12_ReadPastEndThrows ==
  rLast.op \in {"typed", "array", "arrayBuffer", "string"} /\ ~rLast.threw
    => rLast.bytes = rLast.n

\* C13: parseNode terminates on every node; it parses a child only while
\* the offset is below the node's end-offset; a record whose end-offset
\* is 0 returns null and adds nothing to the tree.
C13_ParseNodeTerminates ==
  /\ <>(bPc \in {"idle", "done", "threw"})
  /\ [](bPc = "call" /\ bStack # <<>> => bStack[Len(bStack)].endOffset > rOffset)
  /\ [][bNulls' # bNulls => bAdded' = bAdded /\ bStack' = bStack]_vars
  /\ [][bCalls' # bCalls => rOffset' > rOffset \/ bPc' = "threw"]_vars

\* A parse that ran to the end over a parent, a child and a NULL record.
C13_Witness ==
  /\ bPc = "done"
  /\ bCalls = 3 /\ bNulls = 1 /\ bAdded = 2

\* C14: the depth of the node stack equals currentIndent and is never
\* below 0.
C14_DepthEqualsIndent ==
  Len(nodeStack) = currentIndent /\ currentIndent >= 0

\* The numbers of the lines read for the array property, in order.
RECURSIVE Elements(_)
Elements(values) ==
  IF values = <<>> THEN <<>>
  ELSE Head(values).elements \o Elements(Tail(values))

\* C15: an array property split over several lines is decoded to one
\* array holding, in order, every element of every line from the opening
\* line through the first line without a trailing comma, in the node
\* the opening line was read in.
C15_ContinuedArray ==
  tArray # <<>> /\ ~tOpen =>
    /\ tOwner = currentIndent /\ tOwner = Len(nodeStack)
    /\ nodeStack[tOwner] = ArrayA(Elements(tArray))

\* An array of five numbers read from three lines.
C15_Witness ==
  /\ Len(tArray) = 3 /\ ~tOpen
  /\ nodeStack[tOwner].array = <<1, 2, 6, 10, 5>>

\* The entries genBuffers has handled, and how many of the first n of
\* them are negative.
Handled == SubSeq(vertexIndices, 1, polygonVertexIndex)
NegativesIn(n) == Cardinality({i \in 1..n : Handled[i] < 0})
EndOfFace(k) == CHOOSE i \in 1..Len(Handled) : Handled[i] < 0 /\ NegativesIn(i) = k
StartOfFace(k) == IF k = 1 THEN 1 ELSE EndOfFace(k - 1) + 1
TrueIndex(i) == IF Handled[i] < 0 THEN 0 - (Handled[i] + 1) ELSE Handled[i]

\* C16: a face is the run of entries after the previous negative entry up
\* to and including the next one, the negative entry standing for its
\* bit-complement; there are as many faces as negative entries, and the
\* polygon index handed to the attribute lookup grows by one per face.
C16_FacesSplitAtNegatives ==
  /\ Len(faces) = NegativesIn(Len(Handled))
  /\ polygonIndex = Len(faces)
  /\ \A k \in 1..Len(faces) :
       faces[k].vertices =
         [j \in 1..(EndOfFace(k) - StartOfFace(k) + 1) |->
            TrueIndex(StartOfFace(k) + j - 1)]
  /\ \A i \in 1..Len(passed) :
       /\ passed[i].polygonIndex = NegativesIn(i - 1)
       /\ passed[i].vertexIndex = TrueIndex(i)

\* Two faces, of three vertices and of two.
C16_Witness ==
  /\ vertexIndices = <<0, 1, -2, 1, -1>>
  /\ polygonVertexIndex = 5
  /\ Len(faces) = 2
  /\ faces[2].vertices = <<1, 0>>

\* A face drawn as faceLength - 2 triangles whose corners are vertices of
\* the face and cover all of them.
Triangulated(face) ==
  /\ Len(face.triangles) = face.faceLength - 2
  /\ \A t \in 1..Len(face.triangles) : \A c \in 1..3 :
       face.triangles[t][c] \in 0..(face.faceLength - 1)
  /\ \A v \in 0..(face.faceLength - 1) :
       \E t \in 1..Len(face.triangles) : \E c \in 1..3 :
         face.triangles[t][c] = v
  /\ \A t \in 1..Len(face.triangles) : \A c \in 1..3 :
       face.corners[t][c] = face.vertices[face.triangles[t][c] + 1]

FirstLargest(entries) ==
  CHOOSE i \in 1..Len(entries) :
    /\ \A j \in 1..Len(entries) : entries[j].weight <= entries[i].weight
    /\ \A j \in 1..(i - 1) : entries[j].weight < entries[i].weight

RECURSIVE Largest(_, _)
Largest(entries, n) ==
  IF n = 0 \/ entries = <<>> THEN {}
  ELSE LET i == FirstLargest(entries)
       IN {entries[i]} \cup
          Largest([j \in 1..(Len(entries) - 1) |->
                     entries[IF j < i THEN j ELSE j + 1]], n - 1)

\* The deformers of a vertex, and the slots of vertex and slot list.
Deformers(vertex) ==
  IF vertex \in DOMAIN weightTable THEN weightTable[vertex] ELSE <<>>

FourSlots(vertex, slots) ==
  LET entries == Deformers(vertex)
  IN /\ Len(slots) = 4
     /\ Len(entries) > 4 =>
          {slots[i] : i \in 1..4} = Largest(entries, 4)
     /\ Len(entries) <= 4 =>
          \A i \in 1..4 :
            slots[i] = IF i <= Len(entries) THEN entries[i] ELSE [weight |-> 0, id |-> 0]

FourHeaviest(vertex, slots) ==
  LET entries == Deformers(vertex)
      kept == {slots[i] : i \in 1..Len(slots)}
      all == {entries[i] : i \in 1..Len(entries)}
  IN /\ Len(slots) = 4
     /\ Len(entries) > 4 =>
          /\ kept \subseteq all
          /\ Cardinality(kept) = 4
          /\ \A out \in all \ kept : \A in \in kept : out.weight <= in.weight
          /\ \A i \in 1..3 : slots[i].weight >= slots[i + 1].weight
     /\ Len(entries) <= 4 =>
          \A i \in 1..4 :
            slots[i] = IF i <= Len(entries) THEN entries[i] ELSE [weight |-> 0, id |-> 0]

Chosen(call) ==
  CASE layer.mappingType = "ByPolygonVertex" -> call.polygonVertexIndex
    [] layer.mappingType = "ByPolygon" -> call.polygonIndex
    [] layer.mappingType = "ByVertex" -> call.vertexIndex
    [] layer.mappingType = "AllSame" -> layer.indices[1]

Resolved(call) ==
  IF layer.referenceType = "IndexToDirect"
  THEN layer.indices[Chosen(call) + 1]
  ELSE Chosen(call)

\* C19: getData takes the polygon-vertex index for ByPolygonVertex, the
\* polygon index for ByPolygon, the vertex index for ByVertex and the
\* layer's first index entry for AllSame, replaces it by the index-buffer
\* entry at that position for IndexToDirect, and returns the dataSize
\* buffer values from index * dataSize on.
C19_DataByMappingType ==
  \A c \in 1..Len(passed) :
    /\ layer.mappingType \in {"ByPolygonVertex", "ByPolygon", "ByVertex", "AllSame"}
    /\ layer.mappingType = "AllSame" => layer.indices # <<>>
    => passed[c].data =
         [j \in 1..layer.dataSize |->
            layer.buffer[Resolved(passed[c]) * layer.dataSize + j]]

\* C20: createMesh does not fail; afterwards every group's materialIndex
\* refers to a material of the mesh, a group whose index was out of the
\* range of the connected materials to an appended default material, and
\* a group whose index was in range, 0 included, to the one it named.
C20_GroupsReferToMaterials ==
  /\ meshPc # "threw"
  /\ meshPc = "done" =>
       \A i \in 1..Len(groups) :
         /\ mesh.groups[i] \in 0..(Len(mesh.material) - 1)
         /\ mesh.material[mesh.groups[i] + 1] # "undefined"
         /\ groups[i] < Len(connected) => mesh.groups[i] = groups[i]
         /\ groups[i] >= Len(connected) =>
              mesh.material[mesh.groups[i] + 1] = "default"

\* The times at which some axis has a key, and the value of an axis at a
\* track time: its own key there, else its value at the track time before,
\* else the initial value.
KeyTimes == UNION {{curves[Axes[a]].times[i] : i \in 1..Len(curves[Axes[a]].times)} :
                   a \in 1..3}

RECURSIVE ValueAt(_, _)
ValueAt(a, n) ==
  LET curve == curves[Axes[a]]
      time == vectorTrack.times[n]
  IN IF \E i \in 1..Len(curve.times) : curve.times[i] = time
     THEN curve.values[CHOOSE i \in 1..Len(curve.times) : curve.times[i] = time]
     ELSE IF n = 1 THEN initialValue[a] ELSE ValueAt(a, n - 1)

\* C21: the times of a translation or scale track are the sorted union,
\* without duplicates, of the three curves' times; at each time an axis
\* has its own key if it has one there and its value at the previous
\* track time otherwise, the initial value before its first key; the
\* track holds three values per time.
C21_VectorTrackMerges ==
  vectorPc = "done" =>
    /\ {vectorTrack.times[n] : n \in 1..Len(vectorTrack.times)} = KeyTimes
    /\ \A n \in 1..(Len(vectorTrack.times) - 1) :
         vectorTrack.times[n] < vectorTrack.times[n + 1]
    /\ Len(vectorTrack.values) = 3 * Len(vectorTrack.times)
    /\ \A n \in 1..Len(vectorTrack.times) : \A a \in 1..3 :
         vectorTrack.values[3 * (n - 1) + a] = ValueAt(a, n)

\* x has keys at 1 and 3, y at 2 only, z at 2 and 3.
C21_Witness ==
  /\ vectorPc = "done"
  /\ curves.x.times = <<1, 3>> /\ curves.x.values = <<5, 7>>
  /\ curves.y.times = <<2>> /\ curves.y.values = <<7>>
  /\ curves.z.times = <<2, 3>> /\ curves.z.values = <<5, 7>>
  /\ vectorTrack.times = <<1, 2, 3>>
  /\ vectorTrack.values = <<5, 0, 0, 5, 7, 5, 7, 7, 7>>

\* The samples strictly between the times of the keys i - 1 and i.
Between(i) ==
  {n \in 1..Len(interpolated) :
     /\ (i - 1) * interpolated[n].den < interpolated[n].num
     /\ interpolated[n].num < i * interpolated[n].den}

\* The largest change of an axis from key i - 1 to key i.
MaxAxisDelta(i) ==
  LET d(a) == IF keyframes[i][a] >= keyframes[i - 1][a]
              THEN keyframes[i][a] - keyframes[i - 1][a]
              ELSE keyframes[i - 1][a] - keyframes[i][a]
  IN CHOOSE m \in {d(1), d(2), d(3)} : \A a \in 1..3 : d(a) <= m

\* C22: two consecutive keys between which some axis changes by 180
\* degrees or more get at least one sample strictly between them, and
\* two keys between which every axis changes by less get none.
C22_LargeRotationsSubdivided ==
  interpolatePc = "done" =>
    \A i \in 2..Len(keyframes) :
      IF MaxAxisDelta(i) >= 180 THEN Between(i) # {} ELSE Between(i) = {}

\* C30: the times interpolateRotations returns are strictly increasing,
\* and every key's time is among them, with the key's converted values.
C30_TimesIncreaseAndKeepKeys ==
  interpolatePc = "done" =>
    /\ \A n \in 1..(Len(interpolated) - 1) :
         interpolated[n].num * interpolated[n + 1].den
           < interpolated[n + 1].num * interpolated[n].den
    /\ \A i \in 1..Len(keyframes) :
         \E n \in 1..Len(interpolated) :
           /\ interpolated[n].num = i * interpolated[n].den
           /\ interpolated[n].kind = "key" /\ interpolated[n].key = i

\* C23: every quaternion of a rotation track has a dot product of 0 or
\* more with the quaternion before it, and is the negated rotation of
\* its Euler triple exactly when that rotation has a negative dot product
\* with the quaternion before it.
C23_NonNegativeDot ==
  trackPc = "done" =>
    /\ Len(quaternionValues) = Len(eulers)
    /\ \A n \in 2..Len(quaternionValues) :
         LET before == quaternionValues[n - 1]
             own == Rotated(eulers[n], preRotation, postRotation)
         IN /\ dot(before, quaternionValues[n]) >= 0
            /\ quaternionValues[n] = (IF dot(before, own) < 0 THEN Negated(own) ELSE own)

\* No turn, then a whole turn about x: the second quaternion is
\* <<0, 0, 0, -1>> and is written negated.
C23_Witness ==
  /\ trackPc = "done"
  /\ preRotation = <<0, 0, 0>> /\ postRotation = <<0, 0, 0>>
  /\ eulers = << <<0, 0, 0>>, <<2, 0, 0>> >>
  /\ quaternionValues = << <<0, 0, 0, 1>>, <<0, 0, 0, 1>> >>

\* What the attribute reads as component c of element i, its count, and
\* the dense value of that component in the accessor's buffer view.
getComponent(i, c) ==
  bufferAttribute.array[i * bufferAttribute.stride + bufferAttribute.offset + c + 1]

CountOf == Len(bufferAttribute.array) \div bufferAttribute.stride

BaseValue(i, c) ==
  IF accessorDef.bufferView = "none" THEN 0
  ELSE LET stride == IF accessorDef.bufferView = "interleaved"
                     THEN 2 * accessorDef.itemSize ELSE accessorDef.itemSize
       IN 100 + accessorDef.byteOffset * accessorDef.itemSize + i * stride + c

\* The place of index i among the sparse indices, counted from 0.
SparsePlace(i) == Cardinality({j \in accessorDef.sparse : j < i})

\* C24: loadAccessor decodes exactly count elements; the element at a
\* sparse index holds the sparse value, unscaled, every other element the
\* dense value, zero without a buffer view; the normalized flag ends as
\* the accessor declares it.
C24_SparseOverlay ==
  accessorPc = "done" =>
    /\ CountOf = accessorDef.count
    /\ bufferAttribute.normalized = accessorDef.normalized
    /\ \A i \in 0..(accessorDef.count - 1) : \A c \in 0..(accessorDef.itemSize - 1) :
         getComponent(i, c) =
           IF i \in accessorDef.sparse
           THEN 900 + SparsePlace(i) * accessorDef.itemSize + c
           ELSE BaseValue(i, c)

\* C25: a camera whose parameters are missing does not fail the parse: when
\* the scene was requested and no fetch failed, the finished parse has
\* called onLoad and not onError, every camera is there as an object and
\* the node carrying camera 0 is assembled.
C25_MissingParametersNonFatal ==
  (/\ phase = "done" /\ calls[K("scene", 0)] > 0
   /\ \A k \in Keys : status[k] # "rejected") =>
    /\ onLoadCalls = 1 /\ onErrorCalls = 0
    /\ \A i \in 0..1 : /\ status[K("camera", i)] = "fulfilled"
                       /\ value[K("camera", i)] = "object"
    /\ status[K("node", 1)] = "fulfilled"

\* The same for documents whose cameras all have their parameters.
C25_CompleteCameras ==
  (\A i \in 0..1 : cameraDefs[i] = "ok") => C25_MissingParametersNonFatal

\* An error occurred while loading: the fetch failed, FBXLoader.parse
\* threw, or the promise of FBXTreeParser.parse was rejected.
LoadError ==
  \/ loadInput.fetch = "failed"
  \/ Rejected(loadInput.doc)
  \/ loadInput.tree = "rejected"

\* C26: when an error occurred while loading, fetching or parsing, the
\* finished load has called onError and has not called onLoad.
C26_OnErrorForEveryError ==
  (loadPc = "settled" /\ LoadError) =>
    loadCalled.onError >= 1 /\ loadCalled.onLoad = 0

\* The same for the errors of the fetch alone.
C26_OnErrorForFetchError ==
  (loadPc = "settled" /\ loadInput.fetch = "failed") =>
    loadCalled.onError = 1 /\ loadCalled.onLoad = 0

\* C27: the names createUniqueName returned are pairwise distinct.
C27_UniqueNames ==
  \A i, j \in 1..Len(uniqueNames) : i # j => uniqueNames[i] # uniqueNames[j]

\* A name ends in an underscore and a digit.
Numbered(name) ==
  /\ Len(name) >= 2 /\ name[Len(name) - 1] = "_"
  /\ name[Len(name)] \in {"0", "1", "2", "3", "4", "5", "6", "7", "8", "9"}

\* The same when none of the requested names, sanitized, ends in an
\* underscore and a number.
C27_UniqueAmongPlainNames ==
  (\A name \in DOMAIN nodeNamesUsed : ~Numbered(name)) => C27_UniqueNames

\* The nodes that refer to the object of a kind, and those that hold their
\* instance already.
Referring(kind) == {n \in Nodes : kind \in nodeDefs[n]}
Holding(kind) == {n \in Referring(kind) : nodeRefs[n][kind] # NoRef}

\* C28: a node that alone refers to an object holds the loaded object
\* itself; of k >= 2 referring nodes each holds a clone of its own, no two
\* of them the same instance, with pairwise distinct suffixes among
\* 0..k-1, all of them once every node has resolved, in whatever order.
C28_InstancePerNode ==
  \A kind \in Kinds :
    LET k == Cardinality(Referring(kind))
    IN /\ k = 1 => \A n \in Holding(kind) : nodeRefs[n][kind] = [object |-> 0, suffix |-> -1]
       /\ k >= 2 =>
            /\ \A n \in Holding(kind) :
                 nodeRefs[n][kind].object # 0 /\ nodeRefs[n][kind].suffix \in 0..(k - 1)
            /\ \A n, m \in Holding(kind) :
                 n # m => /\ nodeRefs[n][kind].object # nodeRefs[m][kind].object
                          /\ nodeRefs[n][kind].suffix # nodeRefs[m][kind].suffix
            /\ Holding(kind) = Referring(kind) =>
                 {nodeRefs[n][kind].suffix : n \in Referring(kind)} = 0..(k - 1)

\* Three nodes share the mesh and resolved last to first; another kind is
\* referred to by one node, which holds the loaded object.
C28_Witness ==
  /\ Referring("mesh") = Nodes
  /\ \A n \in Nodes : nodeRefs[n]["mesh"].suffix = MaxNodes - n
  /\ Referring("camera") = {1} /\ nodeRefs[1]["camera"].object = 0

\* The load went wrong: the fetch failed, GLTFLoader.parse threw or
\* reported an error, the parser rejected, or onLoad threw.
GltfFailure ==
  \/ gltfInput.fetch = "failed"
  \/ gltfInput.data \notin {"json", "glb"}
  \/ gltfInput.parser = "rejects"
  \/ gltfInput.onLoad = "throws"

\* C29: itemStart(url) is eventually followed by itemEnd(url), which is
\* called at most once; a finished load has called itemError once when it
\* went wrong and never when it succeeded.
C29_ItemsBalanced ==
  /\ (manager.itemStart = 1) ~> (manager.itemEnd = 1)
  /\ [](manager.itemEnd <= manager.itemStart /\ manager.itemEnd <= 1)
  /\ [](manager.itemEnd = 1 =>
         manager.itemError = IF GltfFailure THEN 1 ELSE 0)
  /\ [](manager.itemError <= 1)

\* onLoad was called with the result and threw: one itemError, one itemEnd.
C29_Witness ==
  /\ gltfPc = "settled" /\ gltfInput.onLoad = "throws"
  /\ manager = [itemStart |-> 1, itemEnd |-> 1, itemError |-> 1, onLoad |-> 1, onError |-> 1]

====
